---- MODULE Spec2Model ----
(***************************************************************************)
(* Dual-track stock ledger, customs-gap resolution and shipment receipt of *)
(* nexport, as concurrent request transactions against a shared store.     *)
(*                                                                         *)
(* Store model: every table has a committed image (itemC, gapC, poC,       *)
(* shipC) and, per caller, the row versions its open transaction has       *)
(* written and not yet committed (itemW, gapW, poW, shipW).  A caller      *)
(* holding a version of a row holds that row's exclusive lock; another     *)
(* caller's UPDATE or locking read of the row waits until the holder       *)
(* commits or rolls back.  Quantities are integers (the code uses floats). *)
(***************************************************************************)
EXTENDS Integers, Sequences, FiniteSets, TLC

\* ---------------------------------------------------------------- bounds
MaxOps    == 2      \* calls started in one behaviour
MaxQty    == 2      \* largest line, delivery and gap quantity
InitStock == 2      \* initial declared stock of every item
MaxFaults == 1      \* store / collaborator failures injected in one behaviour

Procs == {"c1", "c2"}
Items == {"ITEM-A", "ITEM-B"}

VARIABLES
    itemC,      \* committed tabItem rows
    itemW,      \* itemW[p]: Item rows written by p's open transaction (row locks)
    pend,       \* deltas passed to update_stock_atomic by p's open transaction
    applied,    \* per item, the initial stock plus the deltas of committed transactions
    undo,       \* undo[p]: the committed row p's transaction found when it first wrote it
    gapC,       \* committed tabCustoms Gap rows, by name (names grow with creation time)
    gapW,       \* gapW[p]: gap rows locked, updated or inserted by p's open transaction
    nextGap,    \* name (creation stamp) of the next gap to be inserted
    consumed,   \* per gap, the quantity that committed declarations took from it
    poC,        \* committed received_qty of every Purchase Order line
    poW,        \* poW[p]: PO lines written by p's open transaction
    shipC,      \* committed receipt_processed flag of every Shipment
    shipW,      \* shipW[p]: Shipment rows written by p's open transaction
    pc,         \* position of each caller
    op,         \* the call each caller is executing (name and arguments)
    idx,        \* loop index of the running call
    doc,        \* in-memory Item document / cost snapshot of the running call
    loc,        \* other local variables of the running call
    err,        \* exception being propagated by the running call
    preCall,    \* the row a caller saw just before its latest update_stock_atomic
    stmt,       \* the last statement a caller issued against tabItem
    result,     \* outcome of the caller's last finished call
    waited,     \* waited[p]: p's running call sat in a lock wait when another call ended
    resv,       \* committed tabStock Reservation rows, by name
    invC,       \* committed tabInvoice rows, by name
    planC,      \* committed tabNexPort Payment Plan rows, by <<parent, installment_number>>
    execC,      \* committed tabNexPort Payment Execution rows, by name
    payW,       \* payW[p]: invoice, plan and execution rows written by p's open transaction
    savepoints, \* savepoints[p]: by savepoint name, p's written rows when it was set
    nextExec,   \* name of the next Payment Execution to be inserted
    error_log,  \* titles passed to frappe.log_error
    opsStarted,
    faults

itemVars == <<itemC, itemW, pend, applied, undo>>
gapVars  == <<gapC, gapW, nextGap, consumed>>
rcptVars == <<poC, poW, shipC, shipW>>
callVars == <<pc, op, idx, doc, loc, err, preCall, stmt>>
payVars  == <<invC, planC, execC, payW, savepoints, nextExec, error_log>>
vars == <<itemC, itemW, pend, applied, undo, gapC, gapW, nextGap, consumed,
          poC, poW, shipC, shipW, pc, op, idx, doc, loc, err, preCall, stmt,
          result, waited, resv, invC, planC, execC, payW, savepoints, nextExec,
          error_log, opsStarted, faults>>

\* ------------------------------------------------------------ exceptions
NoErr == [type |-> "none", msg |-> <<>>]
NoLoc == [retval |-> <<>>]
NoStmt == [kind |-> "none", columns |-> {}]
NoCall == [name |-> "none"]
NoPreCall == [item |-> "none"]

\* Messages are sequences of tokens.
MsgNegativePhysical == <<"Stock", "(", "Physical", ")", "would", "become", "negative">>
MsgNegativeDeclared == <<"Stock", "(", "Declared", ")", "would", "become", "negative">>
MsgLockWait  == <<"Lock", "wait", "timeout", "exceeded", ";", "try", "restarting", "transaction">>
MsgDeadlock  == <<"Deadlock", "found", "when", "trying", "to", "get", "lock">>
MsgOtherDb   == <<"Some", "other", "DB", "error">>
MsgNoItems   == <<"Delivery", "Note", "has", "no", "items">>
MsgBadQty    == <<"Invalid", "quantity", "for", "item">>
MsgPleaseTryAgain == <<"Please", "try", "again">>
MsgNotSubmitted == <<"Shipment", "must", "be", "submitted", "before", "receipt">>
MsgNoShipmentItems == <<"Shipment", "has", "no", "items">>
MsgNoLinkedPO == <<"Shipment", "item", "has", "no", "linked", "PO">>
MsgPONotFound == <<"PO", "not", "found">>
MsgBadPO == <<"PO", "cannot", "receive">>
MsgInvoiceFieldMissing == <<"Purchase", "Order", "missing", "invoice_id", "field">>
MsgNoInvoiceLink == <<"PO", "missing", "invoice", "link">>
MsgRateRequired == <<"Formal", "shipment", "requires", "customs_exchange_rate", ">", "0">>
MsgNoCustomsName == <<"Item", "has", "no", "customs_name">>
MsgReceiptFailed == <<"Shipment", "receipt", "failed", ".", "Error", "logged", ".", "Ref">>

ValidationError(m) == [type |-> "ValidationError", msg |-> m]
OperationalError(m) == [type |-> "OperationalError", msg |-> m]

NegativeStockErrors ==
    {ValidationError(MsgNegativePhysical), ValidationError(MsgNegativeDeclared)}

\* --------------------------------------------------------------- tabItem
NoDelta == [i \in Items |-> [physical |-> 0, declared |-> 0]]
LedgerColumns == {"stock_physical", "stock_declared", "cost_landed", "cost_declared"}

\* The row p's transaction reads: its own uncommitted version if it has one.
ItemRow(p, i) == IF i \in DOMAIN itemW[p] THEN itemW[p][i] ELSE itemC[i]

ItemLockFree_NoWait(p, i) == TRUE
\* An UPDATE of row i by p proceeds only when no other transaction holds it.
ItemLockFree(p, i) == \A q \in Procs \ {p} : i \notin DOMAIN itemW[q]

\* UPDATE tabItem SET stock_physical = stock_physical + d1, stock_declared = ... + d2
stock_delta_sql(row, physical_delta, declared_delta) ==
    [row EXCEPT !.stock_physical = @ + physical_delta,
                !.stock_declared = @ + declared_delta]

negative_stock_check_physical_only(row) ==
    IF row.stock_physical < 0 THEN ValidationError(MsgNegativePhysical) ELSE NoErr
negative_stock_check_declared_only(row) ==
    IF row.stock_declared < 0 THEN ValidationError(MsgNegativeDeclared) ELSE NoErr
\* Post-update check of update_stock_atomic: the exception it throws, if any.
negative_stock_check(row) ==
    IF row.stock_physical < 0 THEN ValidationError(MsgNegativePhysical)
    ELSE IF row.stock_declared < 0 THEN ValidationError(MsgNegativeDeclared)
    ELSE NoErr

\* update_stock_atomic(item, physical_delta, declared_delta) issued by p, as one
\* step: the delta UPDATE and the re-read run under the row lock the UPDATE
\* takes.  Sets itemW, pend, undo, preCall, stmt; the caller inspects ThrownBy.
update_stock_atomic(p, i, physical_delta, declared_delta) ==
    IF physical_delta = 0 /\ declared_delta = 0
    THEN UNCHANGED <<itemW, pend, undo, preCall, stmt>>
    ELSE /\ ItemLockFree(p, i)
         /\ itemW' = [itemW EXCEPT ![p] =
                (i :> stock_delta_sql(ItemRow(p, i), physical_delta, declared_delta)) @@ @]
         /\ pend' = [pend EXCEPT ![p][i] =
                [physical |-> @.physical + physical_delta,
                 declared |-> @.declared + declared_delta]]
         /\ undo' = [undo EXCEPT ![p] = @ @@ (i :> itemC[i])]
         /\ preCall' = [preCall EXCEPT ![p] = [item |-> i, row |-> ItemRow(p, i)]]
         /\ stmt' = [stmt EXCEPT ![p] =
                [kind |-> "delta", columns |-> {"stock_physical", "stock_declared"}]]

\* The exception update_stock_atomic raises for these arguments in this state.
ThrownBy(p, i, physical_delta, declared_delta) ==
    IF physical_delta = 0 /\ declared_delta = 0 THEN NoErr
    ELSE negative_stock_check(
            stock_delta_sql(ItemRow(p, i), physical_delta, declared_delta))

\* UPDATE tabItem SET cost_landed = cost_landed + d1, cost_declared = ... + d2
cost_delta_sql(row, cost_landed_delta, cost_declared_delta) ==
    [row EXCEPT !.cost_landed = @ + cost_landed_delta,
                !.cost_declared = @ + cost_declared_delta]

\* The cost types for which update_cost_atomic calls record_price_change, in order.
history_both_types(cost_landed_delta, cost_declared_delta) ==
    <<"PHYSICAL", "DECLARED">>
history_cost_types(cost_landed_delta, cost_declared_delta) ==
    (IF cost_landed_delta # 0 THEN <<"PHYSICAL">> ELSE <<>>)
    \o (IF cost_declared_delta # 0 THEN <<"DECLARED">> ELSE <<>>)

\* `x or None`: a zero is stored as NULL (the empty tuple), another value as itself.
or_none(x) == IF x = 0 THEN <<>> ELSE <<x>>

\* The child row record_price_change appends; args are the call's source,
\* exchange_rate (tenths), foreign_amount and is_temporary_rate.
price_history_row(history_type, cost_type, thb_unit_price, args) ==
    [type |-> history_type, cost_type |-> cost_type, thb_unit_price |-> thb_unit_price,
     source |-> args.source,
     exchange_rate |-> or_none(args.exchange_rate),
     foreign_amount |-> or_none(args.foreign_amount),
     is_temporary_rate |-> IF args.is_temporary_rate THEN 1 ELSE 0]

\* The row item.save() writes: every column of the loaded document, with the
\* new child row appended to price_history.
saved_item_row(loaded, entry) ==
    [loaded EXCEPT !.price_history = Append(@, entry)]

CommitItems(p) ==
    /\ itemC' = [i \in Items |-> IF i \in DOMAIN itemW[p] THEN itemW[p][i] ELSE itemC[i]]
    /\ itemW' = [itemW EXCEPT ![p] = <<>>]
    /\ applied' = [i \in Items |->
            [physical |-> applied[i].physical + pend[p][i].physical,
             declared |-> applied[i].declared + pend[p][i].declared]]
    /\ pend' = [pend EXCEPT ![p] = NoDelta]
    /\ undo' = [undo EXCEPT ![p] = <<>>]

RollbackItems(p) ==
    /\ itemW' = [itemW EXCEPT ![p] = <<>>]
    /\ pend' = [pend EXCEPT ![p] = NoDelta]
    /\ undo' = [undo EXCEPT ![p] = <<>>]
    /\ UNCHANGED <<itemC, applied>>

\* --------------------------------------------------------- tabCustoms Gap
CustomsNames == {"CN-1", "CN-2"}
OpenStatuses == {"Pending", "Partial"}
DEFAULT_GAP_DEADLINE_DAYS == 30

RECURSIVE SortedNames(_)
\* The names in S in ascending order (names are creation stamps).
SortedNames(S) ==
    IF S = {} THEN <<>>
    ELSE LET m == CHOOSE x \in S : \A y \in S : x <= y
         IN <<m>> \o SortedNames(S \ {m})

RECURSIVE ReverseSeq(_)
ReverseSeq(s) == IF s = <<>> THEN <<>> ELSE ReverseSeq(Tail(s)) \o <<Head(s)>>

PendingGapRecord(g) ==
    [name |-> g.name, product |-> g.product, gap_qty |-> g.gap_qty,
     resolved_qty |-> g.resolved_qty]

\* The gap p's transaction reads under a locking (current) read.
GapRow(p, n) == IF n \in DOMAIN gapW[p] THEN gapW[p][n] ELSE gapC[n]

\* Rows matched by the WHERE clause of _SELECT_PENDING_GAPS_SQL.
pending_gap_names(customs_name) ==
    {n \in DOMAIN gapC : /\ gapC[n].general_name = customs_name
                         /\ gapC[n].status \in OpenStatuses}

select_pending_gaps_newest_first(customs_name) ==
    ReverseSeq(SortedNames(pending_gap_names(customs_name)))
\* _SELECT_PENDING_GAPS_SQL: ... ORDER BY creation ASC FOR UPDATE
select_pending_gaps_sql(customs_name) ==
    SortedNames(pending_gap_names(customs_name))

\* The locking read waits while another transaction holds a row of this key
\* (a gap it locked for update, or one it inserted and has not committed).
GapKeyLockFree(p, customs_name) ==
    \A q \in Procs \ {p} : \A n \in DOMAIN gapW[q] :
        gapW[q][n].general_name # customs_name

select_takes_no_lock(p, names) == gapW[p]
\* FOR UPDATE: the selected rows become locked by p's transaction.
select_for_update_locks(p, names) ==
    [n \in names |-> gapC[n]] @@ gapW[p]

\* _UPDATE_GAP_RESOLVED_SQL applied to a row.
update_gap_resolved_sql(g, qty, status, resolution_ref) ==
    [g EXCEPT !.resolved_qty = @ + qty, !.status = status,
              !.resolution_ref = resolution_ref]

\* An UPDATE of gap n by p proceeds only when no other transaction holds it.
GapLockFree(p, n) == \A q \in Procs \ {p} : n \notin DOMAIN gapW[q]

create_gap_already_resolved(n, product, shipment, po, general_name, gap_qty, deadline) ==
    [name |-> n, product |-> product, shipment |-> shipment, po |-> po,
     general_name |-> general_name, gap_qty |-> gap_qty, resolved_qty |-> gap_qty,
     status |-> "Resolved", resolution_ref |-> "", deadline |-> deadline]
\* create_gap: the inserted Customs Gap document.
create_gap(n, product, shipment, po, general_name, gap_qty, deadline) ==
    [name |-> n, product |-> product, shipment |-> shipment, po |-> po,
     general_name |-> general_name, gap_qty |-> gap_qty, resolved_qty |-> 0,
     status |-> "Pending", resolution_ref |-> "", deadline |-> deadline]

CommitGaps(p) ==
    /\ gapC' = gapW[p] @@ gapC
    /\ gapW' = [gapW EXCEPT ![p] = <<>>]

RollbackGaps_KeepsWrites(p) ==
    /\ gapC' = gapW[p] @@ gapC
    /\ gapW' = [gapW EXCEPT ![p] = <<>>]
\* frappe.db.rollback() on the gap table.
RollbackGaps(p) ==
    /\ gapW' = [gapW EXCEPT ![p] = <<>>]
    /\ UNCHANGED gapC

\* ------------------------------------------- Shipment and Purchase Order
Shipments == {"SHP-1", "SHP-2", "SHP-3"}
\* Shipments that validation has to turn away, and one more it accepts.
ReceiptCases ==
    Shipments \cup {"SHP-4", "SHP-5", "SHP-6", "SHP-7", "SHP-8", "SHP-9", "SHP-10",
                    "SHP-11", "SHP-12", "SHP-13", "SHP-14"}

\* Received before the behaviour starts (its Purchase Order was cancelled since).
ReceivedEarlier == {"SHP-8"}

Line(i, po, q) == [item |-> i, po |-> po, quantity |-> q]

Shipment(docstatus, is_formal, customs_exchange_rate, items) ==
    [docstatus |-> docstatus, is_formal |-> is_formal,
     customs_exchange_rate |-> customs_exchange_rate, items |-> items]

\* The Shipment documents (written by shipment management, read by the receipt).
ShipmentDoc(s) ==
    CASE s = "SHP-1" -> Shipment(1, FALSE, 0,
            <<Line("ITEM-A", "PO-1", MaxQty), Line("ITEM-B", "PO-1", 1)>>)
      [] s = "SHP-2" -> Shipment(1, TRUE, 30, <<Line("ITEM-B", "PO-1", 1)>>)
      [] s = "SHP-4" -> Shipment(1, FALSE, 0, <<>>)
      [] s = "SHP-5" -> Shipment(1, FALSE, 0,
            <<Line("ITEM-A", "PO-1", 1), Line("ITEM-B", "PO-1", 0)>>)
      [] s = "SHP-6" -> Shipment(1, TRUE, 30,
            <<Line("ITEM-A", "PO-1", 1), Line("ITEM-B", "", 1)>>)
      [] s = "SHP-7" -> Shipment(1, TRUE, 30,
            <<Line("ITEM-A", "PO-1", 1), Line("ITEM-B", "PO-9", 1)>>)
      [] s = "SHP-8" -> Shipment(1, TRUE, 30, <<Line("ITEM-A", "PO-2", 1)>>)
      [] s = "SHP-9" -> Shipment(1, TRUE, 30, <<Line("ITEM-A", "PO-3", 1)>>)
      [] s = "SHP-10" -> Shipment(1, TRUE, 0, <<Line("ITEM-A", "PO-1", 1)>>)
      [] s = "SHP-11" -> Shipment(1, FALSE, 0,
            <<Line("ITEM-A", "PO-1", 1), Line("ITEM-X", "PO-1", 1)>>)
      [] s = "SHP-12" -> Shipment(1, TRUE, 30, <<Line("ITEM-A", "PO-5", 1)>>)
      [] s = "SHP-13" -> Shipment(1, TRUE, 30, <<Line("ITEM-A", "PO-4", 1)>>)
      [] s = "SHP-14" -> Shipment(1, TRUE, 30, <<Line("ITEM-A", "PO-1", 0 - 1)>>)
      [] OTHER -> Shipment(0, TRUE, 30, <<Line("ITEM-A", "PO-1", 1)>>)

POLines == {<<"PO-1", "ITEM-A">>, <<"PO-1", "ITEM-B">>, <<"PO-4", "ITEM-A">>}
\* Ordered quantity of a Purchase Order line.
POQuantity(l) == IF l[2] = "ITEM-A" THEN MaxQty ELSE 1

POStatusAndInvoice(exists, status, invoice_field_exists, invoice_id) ==
    [exists |-> exists, status |-> status,
     invoice_field_exists |-> invoice_field_exists, invoice_id |-> invoice_id]
\* Purchase Order header as get_po_status_and_invoice returns it (exists is
\* FALSE where it returns None).
POData(po) ==
    CASE po = "PO-1" -> POStatusAndInvoice(TRUE, "Ordered", TRUE, "INV-1")
      [] po = "PO-2" -> POStatusAndInvoice(TRUE, "Cancelled", TRUE, "INV-2")
      [] po = "PO-3" -> POStatusAndInvoice(TRUE, "Confirmed", TRUE, "")
      [] po = "PO-4" -> POStatusAndInvoice(TRUE, "Shipped", TRUE, "INV-4")
      [] po = "PO-5" -> POStatusAndInvoice(TRUE, "Received", FALSE, "INV-5")
      [] OTHER -> POStatusAndInvoice(FALSE, "", TRUE, "")
\* Item.customs_name
ItemCustomsName(i) == IF i \in Items THEN "CN-1" ELSE ""

ALLOWED_PO_RECEIPT_STATUSES == {"Ordered", "Confirmed", "Shipped", "Received"}

\* _validate_item_row_for_receipt: the validation error it throws, if any.
validate_item_row_for_receipt(item_row) ==
    IF item_row.quantity <= 0 THEN ValidationError(MsgBadQty)
    ELSE IF item_row.po = "" THEN ValidationError(MsgNoLinkedPO)
    ELSE NoErr

\* _validate_po_data_for_receipt
validate_po_data_for_receipt(po_data) ==
    IF ~po_data.exists THEN ValidationError(MsgPONotFound)
    ELSE IF po_data.status \notin ALLOWED_PO_RECEIPT_STATUSES THEN ValidationError(MsgBadPO)
    ELSE IF ~po_data.invoice_field_exists THEN ValidationError(MsgInvoiceFieldMissing)
    ELSE IF po_data.invoice_id = "" THEN ValidationError(MsgNoInvoiceLink)
    ELSE NoErr

RECURSIVE validate_rows(_, _)
\* The loop of _validate_shipment_for_receipt over the lines from k on: the
\* first error of the first line that has one.
validate_rows(sh, k) ==
    IF k > Len(sh.items) THEN NoErr
    ELSE IF validate_item_row_for_receipt(sh.items[k]) # NoErr
        THEN validate_item_row_for_receipt(sh.items[k])
    ELSE IF validate_po_data_for_receipt(POData(sh.items[k].po)) # NoErr
        THEN validate_po_data_for_receipt(POData(sh.items[k].po))
    ELSE validate_rows(sh, k + 1)

formal_exchange_rate_unchecked(sh) == NoErr
\* _validate_formal_exchange_rate
validate_formal_exchange_rate(sh) ==
    IF sh.is_formal /\ sh.customs_exchange_rate <= 0
    THEN ValidationError(MsgRateRequired) ELSE NoErr

\* _validate_informal_customs_names
validate_informal_customs_names(sh) ==
    IF ~sh.is_formal /\ \E k \in 1..Len(sh.items) : ItemCustomsName(sh.items[k].item) = ""
    THEN ValidationError(MsgNoCustomsName) ELSE NoErr

\* _validate_shipment_for_receipt: the validation error it throws, if any.
validate_shipment_for_receipt(sh) ==
    IF sh.docstatus # 1 THEN ValidationError(MsgNotSubmitted)
    ELSE IF sh.items = <<>> THEN ValidationError(MsgNoShipmentItems)
    ELSE IF validate_rows(sh, 1) # NoErr THEN validate_rows(sh, 1)
    ELSE IF validate_formal_exchange_rate(sh) # NoErr THEN validate_formal_exchange_rate(sh)
    ELSE validate_informal_customs_names(sh)

PORow(p, l) == IF l \in DOMAIN poW[p] THEN poW[p][l] ELSE poC[l]
POLockFree(p, l) == \A q \in Procs \ {p} : l \notin DOMAIN poW[q]
ShipmentProcessed_FlagIgnored(p, s) == FALSE
\* shipment.receipt_processed as the caller's get_doc reads it.
ShipmentProcessed(p, s) == IF s \in DOMAIN shipW[p] THEN shipW[p][s] ELSE shipC[s]
ShipmentLockFree(p, s) == \A q \in Procs \ {p} : s \notin DOMAIN shipW[q]

CommitReceipt(p) ==
    /\ poC' = poW[p] @@ poC
    /\ shipC' = shipW[p] @@ shipC
    /\ poW' = [poW EXCEPT ![p] = <<>>]
    /\ shipW' = [shipW EXCEPT ![p] = <<>>]

RollbackReceipt(p) ==
    /\ poW' = [poW EXCEPT ![p] = <<>>]
    /\ shipW' = [shipW EXCEPT ![p] = <<>>]
    /\ UNCHANGED <<poC, shipC>>

\* ------------------------------------------------------------- lock waits
\* The statement p is about to issue waits for a row lock another holds.
WaitsForItem(p) ==
    \/ /\ pc[p] = "ds_row"
       /\ op[p].delivery_note.items[idx[p]].quantity > 0
       /\ ~ItemLockFree(p, op[p].delivery_note.items[idx[p]].item)
    \/ /\ pc[p] \in {"uc_update", "uc_save"}
       /\ ~ItemLockFree(p, op[p].item)
    \/ /\ pc[p] = "rg_item"
       /\ ~ItemLockFree(p, Head(loc[p].items))
    \/ /\ pc[p] = "pr_stock"
       /\ ~ItemLockFree(p, ShipmentDoc(op[p].shipment_id).items[idx[p]].item)

WaitsForGap(p) ==
    \/ /\ pc[p] = "rg_select"
       /\ ~GapKeyLockFree(p, op[p].customs_name)
    \/ /\ pc[p] = "rg_gap"
       /\ ~GapLockFree(p, loc[p].gaps[idx[p]].name)

WaitsForReceiptRow(p) ==
    \/ /\ pc[p] = "pr_po"
       /\ LET row == ShipmentDoc(op[p].shipment_id).items[idx[p]]
          IN ~POLockFree(p, <<row.po, row.item>>)
    \/ /\ pc[p] = "pr_mark"
       /\ ~ShipmentLockFree(p, op[p].shipment_id)

Waits(p) == WaitsForItem(p) \/ WaitsForGap(p) \/ WaitsForReceiptRow(p)

\* ------------------------------------------------------------ end of a call
CallResult(p, status, error, value) ==
    [op |-> op[p].name, status |-> status, error |-> error, value |-> value,
     waited |-> waited[p]]

\* p's call returns or raises to its caller; its transaction has ended, so the
\* callers waiting for its locks proceed.
Finish(p, res) ==
    /\ pc' = [pc EXCEPT ![p] = "idle"]
    /\ result' = [result EXCEPT ![p] = res]
    /\ op' = [op EXCEPT ![p] = NoCall]
    /\ idx' = [idx EXCEPT ![p] = 0]
    /\ doc' = [doc EXCEPT ![p] = <<>>]
    /\ loc' = [loc EXCEPT ![p] = NoLoc]
    /\ err' = [err EXCEPT ![p] = NoErr]
    /\ preCall' = [preCall EXCEPT ![p] = NoPreCall]
    /\ stmt' = [stmt EXCEPT ![p] = NoStmt]
    /\ waited' = [q \in Procs |-> IF q = p THEN FALSE ELSE waited[q] \/ Waits(q)]

\* ------------------------------------------------------------ deduct_stock
Row(i, q) == [item |-> i, quantity |-> q]
Note(rows, is_lending) == [items |-> rows, is_lending |-> is_lending]
\* Delivery notes: rejected ones, sales, loans, and one with two lines of an item.
DeliveryNotes ==
    { Note(<<>>, FALSE),
      Note(<<Row("ITEM-A", 0)>>, FALSE),
      Note(<<Row("ITEM-A", 1)>>, FALSE),
      Note(<<Row("ITEM-A", 1)>>, TRUE),
      Note(<<Row("ITEM-A", MaxQty)>>, FALSE),
      Note(<<Row("ITEM-A", MaxQty)>>, TRUE),
      Note(<<Row("ITEM-B", MaxQty)>>, FALSE),
      Note(<<Row("ITEM-A", 1), Row("ITEM-A", MaxQty)>>, FALSE) }

\* deduct_stock up to its loop: the guard on an empty delivery note.
BeginDeductStock(p) ==
    /\ pc[p] = "idle" /\ opsStarted < MaxOps
    /\ \E dn \in DeliveryNotes :
        /\ op' = [op EXCEPT ![p] = [name |-> "deduct_stock", delivery_note |-> dn]]
        /\ IF dn.items = <<>>
           THEN /\ pc' = [pc EXCEPT ![p] = "req_rollback"]
                /\ err' = [err EXCEPT ![p] = ValidationError(MsgNoItems)]
           ELSE /\ pc' = [pc EXCEPT ![p] = "ds_row"]
                /\ err' = err
    /\ idx' = [idx EXCEPT ![p] = 1]
    /\ opsStarted' = opsStarted + 1
    /\ UNCHANGED <<itemVars, gapVars, rcptVars, doc, loc, preCall, stmt, result,
                   waited, faults>>
    /\ UNCHANGED <<resv, payVars>>

\* One iteration of the loop of deduct_stock.
DeductStockRow(p) ==
    /\ pc[p] = "ds_row"
    /\ LET dn  == op[p].delivery_note
           row == dn.items[idx[p]]
           qty == row.quantity
           declared_delta == IF dn.is_lending THEN 0 ELSE 0 - qty
           thrown == ThrownBy(p, row.item, 0 - qty, declared_delta)
       IN IF qty <= 0
          THEN /\ pc' = [pc EXCEPT ![p] = "req_rollback"]
               /\ err' = [err EXCEPT ![p] = ValidationError(MsgBadQty)]
               /\ UNCHANGED <<itemW, pend, undo, preCall, stmt, idx>>
          ELSE /\ update_stock_atomic(p, row.item, 0 - qty, declared_delta)
               /\ IF thrown # NoErr
                  THEN /\ pc' = [pc EXCEPT ![p] = "req_rollback"]
                       /\ err' = [err EXCEPT ![p] = thrown]
                       /\ idx' = idx
                  ELSE /\ pc' = [pc EXCEPT ![p] =
                                IF idx[p] = Len(dn.items) THEN "req_commit" ELSE "ds_row"]
                       /\ idx' = [idx EXCEPT ![p] = @ + 1]
                       /\ err' = err
    /\ UNCHANGED <<itemC, applied, gapVars, rcptVars, op, doc, loc, result, waited,
                   opsStarted, faults>>
    /\ UNCHANGED <<resv, payVars>>

\* -------------------------------------------------------- update_cost_atomic
CostDeltas == {0, 1}
\* The keyword arguments of a call: the defaults, and a booking at a temporary rate.
HistoryArgs ==
    {[source |-> "", exchange_rate |-> 0, foreign_amount |-> 0,
      is_temporary_rate |-> FALSE],
     [source |-> "SHIP-1", exchange_rate |-> 315, foreign_amount |-> 100,
      is_temporary_rate |-> TRUE]}

\* update_cost_atomic up to its UPDATE: the early return on two zero deltas.
BeginUpdateCost(p) ==
    /\ pc[p] = "idle" /\ opsStarted < MaxOps
    /\ \E i \in Items, ld \in CostDeltas, dd \in CostDeltas, rh \in BOOLEAN,
          args \in HistoryArgs :
        /\ op' = [op EXCEPT ![p] = [name |-> "update_cost_atomic", item |-> i,
                    cost_landed_delta |-> ld, cost_declared_delta |-> dd,
                    record_history |-> rh, history |-> args]]
        /\ pc' = [pc EXCEPT ![p] =
                    IF ld = 0 /\ dd = 0 THEN "req_commit" ELSE "uc_update"]
    /\ opsStarted' = opsStarted + 1
    /\ UNCHANGED <<itemVars, gapVars, rcptVars, idx, doc, loc, err, preCall, stmt,
                   result, waited, faults>>
    /\ UNCHANGED <<resv, payVars>>

\* The delta UPDATE of update_cost_atomic and, with record_history, the read of
\* the two updated costs that follows it.
UpdateCostDelta(p) ==
    /\ pc[p] = "uc_update"
    /\ ItemLockFree(p, op[p].item)
    /\ LET i == op[p].item
           new == cost_delta_sql(ItemRow(p, i), op[p].cost_landed_delta,
                                 op[p].cost_declared_delta)
       IN /\ itemW' = [itemW EXCEPT ![p] = (i :> new) @@ @]
          /\ undo' = [undo EXCEPT ![p] = @ @@ (i :> itemC[i])]
          /\ doc' = [doc EXCEPT ![p] =
                [cost_landed |-> new.cost_landed, cost_declared |-> new.cost_declared]]
    /\ stmt' = [stmt EXCEPT ![p] =
            [kind |-> "delta", columns |-> {"cost_landed", "cost_declared"}]]
    /\ idx' = [idx EXCEPT ![p] = 1]
    /\ pc' = [pc EXCEPT ![p] =
            IF op[p].record_history THEN "uc_get_doc" ELSE "req_commit"]
    /\ UNCHANGED <<itemC, pend, applied, gapVars, rcptVars, op, loc, err, preCall,
                   result, waited, opsStarted, faults>>
    /\ UNCHANGED <<resv, payVars>>

\* record_price_change, first statement: frappe.get_doc("Item", item_name).
RecordPriceChangeGetDoc(p) ==
    /\ pc[p] = "uc_get_doc"
    /\ doc' = [doc EXCEPT ![p] =
            [cost_landed |-> doc[p].cost_landed, cost_declared |-> doc[p].cost_declared,
             item |-> ItemRow(p, op[p].item)]]
    /\ pc' = [pc EXCEPT ![p] = "uc_save"]
    /\ UNCHANGED <<itemVars, gapVars, rcptVars, op, idx, loc, err, preCall, stmt,
                   result, waited, opsStarted, faults>>
    /\ UNCHANGED <<resv, payVars>>

\* record_price_change, item.append(...) and item.save().
RecordPriceChangeSave(p) ==
    /\ pc[p] = "uc_save"
    /\ ItemLockFree(p, op[p].item)
    /\ LET i == op[p].item
           types == history_cost_types(op[p].cost_landed_delta, op[p].cost_declared_delta)
           ct == types[idx[p]]
           price == IF ct = "PHYSICAL" THEN doc[p].cost_landed ELSE doc[p].cost_declared
           saved == saved_item_row(doc[p].item, price_history_row("ADJUSTMENT", ct, price,
                                                                  op[p].history))
       IN /\ itemW' = [itemW EXCEPT ![p] = (i :> saved) @@ @]
          /\ stmt' = [stmt EXCEPT ![p] = [kind |-> "save", columns |-> DOMAIN saved]]
          /\ pc' = [pc EXCEPT ![p] =
                IF idx[p] = Len(types) THEN "req_commit" ELSE "uc_get_doc"]
    /\ idx' = [idx EXCEPT ![p] = @ + 1]
    /\ UNCHANGED <<itemC, pend, applied, undo, gapVars, rcptVars, op, doc, loc, err,
                   preCall, result, waited, opsStarted, faults>>
    /\ UNCHANGED <<resv, payVars>>

\* ------------------------------------------------------------ resolve_gaps
\* Declarations: (customs_name, declaration_qty).
Declarations ==
    {<<"CN-1", q>> : q \in {0, 1, MaxQty + 1, 2 * MaxQty + 1}}
    \cup {<<"CN-2", 2>>, <<"CN-2", 0 - 1>>}
DeclRef(p) == IF p = "c1" THEN "DECL-1" ELSE "DECL-2"

lower_word(w) ==
    CASE w = "Lock" -> "lock"
      [] w = "Deadlock" -> "deadlock"
      [] w = "Some" -> "some"
      [] w = "DB" -> "db"
      [] w = "Stock" -> "stock"
      [] w = "Physical" -> "physical"
      [] w = "Declared" -> "declared"
      [] OTHER -> w

not_lowered(msg) == msg
\* str(exc).lower()
lowered(msg) == [k \in 1..Len(msg) |-> lower_word(msg[k])]

\* marker in text
contains(text, marker) ==
    \E k \in 0..(Len(text) - Len(marker)) :
        SubSeq(text, k + 1, k + Len(marker)) = marker

LOCK_TIMEOUT_MARKERS ==
    {<<"lock", "wait", "timeout", "exceeded">>, <<"deadlock", "found">>}

\* The exception the except block of resolve_gaps leaves to the caller.
exception_after_rollback(exc) ==
    IF \E marker \in LOCK_TIMEOUT_MARKERS : contains(lowered(exc.msg), marker)
    THEN ValidationError(MsgPleaseTryAgain)
    ELSE exc

ItemOrder == <<"ITEM-A", "ITEM-B">>
\* Position of an item name in ascending order of names.
ItemRank(i) == CHOOSE k \in 1..Len(ItemOrder) : ItemOrder[k] = i

\* item_declared_delta[gap["product"]] += ...: the keys of the defaultdict, in
\* the order in which the loop first inserted them.
dict_keys(keys, product) ==
    IF \E k \in 1..Len(keys) : keys[k] = product THEN keys ELSE Append(keys, product)

items_in_insertion_order(keys) == keys
\* sorted(item_declared_delta): the keys of the defaultdict, ascending.
sorted_items(keys) ==
    SelectSeq(ItemOrder, LAMBDA i : \E k \in 1..Len(keys) : keys[k] = i)

Min(a, b) == IF a <= b THEN a ELSE b

to_resolve_whole_gap(gap_remaining, remaining) == gap_remaining
to_resolve_all_remaining(gap_remaining, remaining) == remaining
\* to_resolve = min(gap_remaining, remaining)
to_resolve(gap_remaining, remaining) == Min(gap_remaining, remaining)

RECURSIVE open_quantity(_)
\* Sum of gap_qty - resolved_qty over the rows the locking read returned.
open_quantity(rows) ==
    IF rows = <<>> THEN 0
    ELSE (Head(rows).gap_qty - Head(rows).resolved_qty) + open_quantity(Tail(rows))

\* The dict _consume_gaps returns, with what the call read and took.
ResolveGapsResult(l) ==
    [resolved_count |-> Len(l.gaps_affected), remaining_qty |-> l.remaining,
     gaps_affected |-> l.gaps_affected, warned |-> l.remaining > 0,
     taken |-> l.taken, declaration_qty |-> l.declaration_qty,
     customs_name |-> l.customs_name, locked |-> l.locked,
     open_total |-> l.open_total]

nothing_to_consume_when_negative(qty_to_consume) == qty_to_consume < 0
\* if qty_to_consume <= 0: the call returns before the try block.
nothing_to_consume(qty_to_consume) == qty_to_consume <= 0

\* The locals of a resolve_gaps call at its start.
NewCall(cn, qty) ==
    [retval |-> <<>>, gaps |-> <<>>, remaining |-> qty, gaps_affected |-> <<>>,
     item_declared_delta |-> [i \in Items |-> 0], keys |-> <<>>, items |-> <<>>,
     taken |-> <<>>, declaration_qty |-> qty, customs_name |-> cn,
     locked |-> <<>>, open_total |-> 0]

\* resolve_gaps up to the try block: the guard on declaration_qty.
BeginResolveGaps(p) ==
    /\ pc[p] = "idle" /\ opsStarted < MaxOps
    /\ \E d \in Declarations :
        LET cn == d[1]
            qty == d[2]
        IN
        IF nothing_to_consume(qty)
        THEN /\ result' = [result EXCEPT ![p] =
                    [op |-> "resolve_gaps", status |-> "ok", error |-> NoErr,
                     value |-> [resolved_count |-> 0, remaining_qty |-> 0,
                                gaps_affected |-> <<>>, warned |-> TRUE,
                                taken |-> <<>>, declaration_qty |-> qty,
                                customs_name |-> cn, locked |-> <<>>,
                                open_total |-> 0],
                     waited |-> FALSE]]
             /\ UNCHANGED <<pc, op, loc>>
        ELSE /\ op' = [op EXCEPT ![p] = [name |-> "resolve_gaps", customs_name |-> cn,
                        declaration_qty |-> qty, declaration_ref |-> DeclRef(p)]]
             /\ loc' = [loc EXCEPT ![p] = NewCall(cn, qty)]
             /\ pc' = [pc EXCEPT ![p] = "rg_select"]
             /\ result' = result
    /\ opsStarted' = opsStarted + 1
    /\ UNCHANGED <<itemVars, gapVars, rcptVars, idx, doc, err, preCall, stmt, waited,
                   faults>>
    /\ UNCHANGED <<resv, payVars>>

\* Where the call goes after the gap loop: the item updates, or the commit.
AfterGapLoop(keys) == IF sorted_items(keys) = <<>> THEN "rg_commit" ELSE "rg_item"

\* frappe.db.begin() and get_pending_gaps_for_update(customs_name).
ResolveGapsSelect(p) ==
    /\ pc[p] = "rg_select"
    /\ GapKeyLockFree(p, op[p].customs_name)
    /\ LET names == select_pending_gaps_sql(op[p].customs_name)
           rows == [k \in 1..Len(names) |-> PendingGapRecord(gapC[names[k]])]
       IN /\ gapW' = [gapW EXCEPT ![p] =
                    select_for_update_locks(p, {names[k] : k \in 1..Len(names)})]
          /\ loc' = [loc EXCEPT ![p].gaps = rows, ![p].locked = names,
                                ![p].open_total = open_quantity(rows)]
          /\ pc' = [pc EXCEPT ![p] = IF rows = <<>> THEN "rg_commit" ELSE "rg_gap"]
    /\ idx' = [idx EXCEPT ![p] = 1]
    /\ UNCHANGED <<itemVars, gapC, nextGap, consumed, rcptVars, op, doc, err, preCall,
                   stmt, result, waited, opsStarted, faults>>
    /\ UNCHANGED <<resv, payVars>>

declared_delta_overwritten(item_declared_delta, product, qty) ==
    [item_declared_delta EXCEPT ![product] = qty]
\* item_declared_delta[gap["product"]] += to_resolve
add_declared_delta(item_declared_delta, product, qty) ==
    [item_declared_delta EXCEPT ![product] = @ + qty]

\* One iteration of the loop of _consume_gaps over the gaps read.
ConsumeGap(p) ==
    /\ pc[p] = "rg_gap"
    /\ LET l == loc[p]
           gap == l.gaps[idx[p]]
           gap_remaining == gap.gap_qty - gap.resolved_qty
           qty == to_resolve(gap_remaining, l.remaining)
           will_fully_resolve == (gap.resolved_qty + qty) >= gap.gap_qty
           new_status == IF will_fully_resolve THEN "Resolved" ELSE "Partial"
           remaining2 == l.remaining - qty
           delta2 == add_declared_delta(l.item_declared_delta, gap.product, qty)
           keys2 == dict_keys(l.keys, gap.product)
           last == idx[p] = Len(l.gaps)
       IN IF gap_remaining <= 0
          THEN /\ pc' = [pc EXCEPT ![p] =
                        IF last THEN AfterGapLoop(l.keys) ELSE "rg_gap"]
               /\ loc' = [loc EXCEPT ![p].items = sorted_items(l.keys)]
               /\ UNCHANGED gapW
          ELSE /\ GapLockFree(p, gap.name)
               /\ gapW' = [gapW EXCEPT ![p] =
                    (gap.name :> update_gap_resolved_sql(GapRow(p, gap.name), qty,
                                    new_status, op[p].declaration_ref)) @@ @]
               /\ loc' = [loc EXCEPT ![p] =
                    [l EXCEPT !.remaining = remaining2,
                              !.gaps_affected = Append(@, gap.name),
                              !.item_declared_delta = delta2,
                              !.keys = keys2,
                              !.taken = (gap.name :> qty) @@ @,
                              !.items = sorted_items(keys2)]]
               /\ pc' = [pc EXCEPT ![p] =
                    IF last \/ remaining2 <= 0 THEN AfterGapLoop(keys2) ELSE "rg_gap"]
    /\ idx' = [idx EXCEPT ![p] = @ + 1]
    /\ UNCHANGED <<itemVars, gapC, nextGap, consumed, rcptVars, op, doc, err, preCall,
                   stmt, result, waited, opsStarted, faults>>
    /\ UNCHANGED <<resv, payVars>>

\* One iteration of the loop over sorted(item_declared_delta).
ResolveGapsUpdateItem(p) ==
    /\ pc[p] = "rg_item"
    /\ LET l == loc[p]
           i == Head(l.items)
           thrown == ThrownBy(p, i, 0, l.item_declared_delta[i])
       IN /\ update_stock_atomic(p, i, 0, l.item_declared_delta[i])
          /\ loc' = [loc EXCEPT ![p].items = Tail(@)]
          /\ IF thrown # NoErr
             THEN /\ pc' = [pc EXCEPT ![p] = "rg_except"]
                  /\ err' = [err EXCEPT ![p] = thrown]
             ELSE /\ pc' = [pc EXCEPT ![p] =
                        IF Tail(l.items) = <<>> THEN "rg_commit" ELSE "rg_item"]
                  /\ err' = err
    /\ UNCHANGED <<itemC, applied, gapVars, rcptVars, op, idx, doc, result, waited,
                   opsStarted, faults>>
    /\ UNCHANGED <<resv, payVars>>

\* consumed, after the quantities in taken are committed.
consumed_plus(taken) ==
    [n \in DOMAIN consumed \cup DOMAIN taken |->
        (IF n \in DOMAIN consumed THEN consumed[n] ELSE 0)
        + (IF n \in DOMAIN taken THEN taken[n] ELSE 0)]

\* frappe.db.commit() and return result.
ResolveGapsCommit(p) ==
    /\ pc[p] = "rg_commit"
    /\ CommitItems(p)
    /\ CommitGaps(p)
    /\ consumed' = consumed_plus(loc[p].taken)
    /\ Finish(p, CallResult(p, "ok", NoErr, ResolveGapsResult(loc[p])))
    /\ UNCHANGED <<nextGap, rcptVars, opsStarted, faults>>
    /\ UNCHANGED <<resv, payVars>>

\* except Exception: frappe.db.rollback(), then "Please try again" or re-raise.
ResolveGapsExcept(p) ==
    /\ pc[p] = "rg_except"
    /\ RollbackItems(p)
    /\ RollbackGaps(p)
    /\ Finish(p, CallResult(p, "error", exception_after_rollback(err[p]),
                            [raised |-> err[p]]))
    /\ UNCHANGED <<nextGap, consumed, rcptVars, opsStarted, faults>>
    /\ UNCHANGED <<resv, payVars>>

\* A statement of resolve_gaps fails in the store for a reason of its own.
ResolveGapsStoreFailure(p) ==
    /\ pc[p] \in {"rg_select", "rg_gap", "rg_item", "rg_commit"}
    /\ faults < MaxFaults
    /\ faults' = faults + 1
    /\ err' = [err EXCEPT ![p] = OperationalError(MsgOtherDb)]
    /\ pc' = [pc EXCEPT ![p] = "rg_except"]
    /\ UNCHANGED <<itemVars, gapVars, rcptVars, op, idx, doc, loc, preCall, stmt,
                   result, waited, opsStarted>>
    /\ UNCHANGED <<resv, payVars>>

\* ---------------------------------------------------------- process_receipt
\* _build_already_processed_result
build_already_processed_result ==
    [success |-> TRUE, message |-> "Already processed", already_existed |-> TRUE]

receipt_failure_echoed(exc) == exc
\* except Exception: log the traceback and throw the generic message, which
\* carries the shipment id as the reference of the log entry.
receipt_failure(exc) == ValidationError(MsgReceiptFailed)

\* process_receipt up to the try block: load the shipment, idempotency guard,
\* validation.
ProcessReceiptGuard(p, s) ==
    /\ pc[p] = "idle" /\ opsStarted < MaxOps
    /\  LET sh == ShipmentDoc(s)
            invalid == validate_shipment_for_receipt(sh)
        IN IF ShipmentProcessed(p, s)
           THEN /\ result' = [result EXCEPT ![p] =
                        [op |-> "process_receipt", status |-> "ok", error |-> NoErr,
                         value |-> build_already_processed_result,
                         waited |-> FALSE, shipment_id |-> s]]
                /\ UNCHANGED <<pc, op, loc, err, idx>>
           ELSE /\ op' = [op EXCEPT ![p] = [name |-> "process_receipt", shipment_id |-> s]]
                /\ loc' = [loc EXCEPT ![p] = [retval |-> <<>>, results |-> <<>>]]
                /\ idx' = [idx EXCEPT ![p] = 1]
                /\ result' = result
                /\ IF invalid # NoErr
                   THEN /\ pc' = [pc EXCEPT ![p] = "req_rollback"]
                        /\ err' = [err EXCEPT ![p] = invalid]
                   ELSE /\ pc' = [pc EXCEPT ![p] = "pr_stock"]
                        /\ err' = err
    /\ opsStarted' = opsStarted + 1
    /\ UNCHANGED <<itemVars, gapVars, rcptVars, doc, preCall, stmt, waited, faults>>
    /\ UNCHANGED <<resv, payVars>>

\* process_receipt(shipment_id) is called on one of the three shipments.
BeginProcessReceipt(p) == \E s \in Shipments : ProcessReceiptGuard(p, s)

\* process_receipt(shipment_id) is called on any of the shipments.
BeginProcessReceiptCase(p) == \E s \in ReceiptCases : ProcessReceiptGuard(p, s)

\* _execute_receipt_transaction, one line: the stock update and, for an
\* informal shipment, the gap it opens.
ReceiptStock(p) ==
    /\ pc[p] = "pr_stock"
    /\ LET s == op[p].shipment_id
           sh == ShipmentDoc(s)
           row == sh.items[idx[p]]
           qty == row.quantity
           declared_delta == IF sh.is_formal THEN qty ELSE 0
           thrown == ThrownBy(p, row.item, qty, declared_delta)
       IN /\ update_stock_atomic(p, row.item, qty, declared_delta)
          /\ IF thrown # NoErr
             THEN /\ pc' = [pc EXCEPT ![p] = "req_rollback"]
                  /\ err' = [err EXCEPT ![p] = receipt_failure(thrown)]
                  /\ UNCHANGED <<gapW, nextGap>>
             ELSE /\ pc' = [pc EXCEPT ![p] = "pr_po"]
                  /\ err' = err
                  /\ IF sh.is_formal
                     THEN UNCHANGED <<gapW, nextGap>>
                     ELSE /\ gapW' = [gapW EXCEPT ![p] =
                                (nextGap :> create_gap(nextGap, row.item, s, row.po,
                                        ItemCustomsName(row.item), qty,
                                        DEFAULT_GAP_DEADLINE_DAYS)) @@ @]
                          /\ nextGap' = nextGap + 1
    /\ UNCHANGED <<itemC, applied, gapC, consumed, rcptVars, op, idx, doc, loc, result,
                   waited, opsStarted, faults>>
    /\ UNCHANGED <<resv, payVars>>

\* _execute_receipt_transaction, one line: increment_received_qty and the
\* result entry.
ReceiptPOLine(p) ==
    /\ pc[p] = "pr_po"
    /\ LET sh == ShipmentDoc(op[p].shipment_id)
           row == sh.items[idx[p]]
           l == <<row.po, row.item>>
       IN /\ POLockFree(p, l)
          /\ poW' = [poW EXCEPT ![p] = (l :> (PORow(p, l) + row.quantity)) @@ @]
          /\ loc' = [loc EXCEPT ![p].results =
                Append(@, [item |-> row.item, qty |-> row.quantity, po |-> row.po])]
          /\ pc' = [pc EXCEPT ![p] =
                IF idx[p] = Len(sh.items) THEN "pr_mark" ELSE "pr_stock"]
    /\ idx' = [idx EXCEPT ![p] = @ + 1]
    /\ UNCHANGED <<itemVars, gapVars, poC, shipC, shipW, op, doc, err, preCall, stmt,
                   result, waited, opsStarted, faults>>
    /\ UNCHANGED <<resv, payVars>>

\* A statement of the try block of process_receipt raises for a reason of its
\* own: the statement p is at, without effect, or create_gap after the stock
\* update of the same line has been applied.
ReceiptStoreFailure(p) ==
    /\ faults < MaxFaults
    /\ faults' = faults + 1
    /\ err' = [err EXCEPT ![p] = receipt_failure(OperationalError(MsgOtherDb))]
    /\ pc' = [pc EXCEPT ![p] = "req_rollback"]
    /\ \/ /\ pc[p] \in {"pr_stock", "pr_po", "pr_mark"}
          /\ UNCHANGED <<itemW, pend, undo, preCall, stmt>>
       \/ /\ pc[p] = "pr_stock"
          /\ ~ShipmentDoc(op[p].shipment_id).is_formal
          /\ LET row == ShipmentDoc(op[p].shipment_id).items[idx[p]]
             IN update_stock_atomic(p, row.item, row.quantity, 0)
    /\ UNCHANGED <<itemC, applied, gapVars, rcptVars, op, idx, doc, loc, result,
                   waited, opsStarted>>
    /\ UNCHANGED <<resv, payVars>>

\* mark_receipt_processed(shipment_id)
MarkReceiptProcessed(p) ==
    /\ pc[p] = "pr_mark"
    /\ ShipmentLockFree(p, op[p].shipment_id)
    /\ shipW' = [shipW EXCEPT ![p] = (op[p].shipment_id :> TRUE) @@ @]
    /\ pc' = [pc EXCEPT ![p] = "pr_over"]
    /\ UNCHANGED <<itemVars, gapVars, poC, poW, shipC, op, idx, doc, loc, err, preCall,
                   stmt, result, waited, opsStarted, faults>>
    /\ UNCHANGED <<resv, payVars>>

\* _collect_over_receipt_items: per PO, the lines received beyond the order.
over_items(p, sh, po) ==
    SelectSeq([k \in 1..Len(sh.items) |->
                 [item |-> sh.items[k].item, po |-> sh.items[k].po,
                  over_qty |-> PORow(p, <<sh.items[k].po, sh.items[k].item>>)
                               - POQuantity(<<sh.items[k].po, sh.items[k].item>>)]],
              LAMBDA r : r.po = po /\ r.over_qty > 0)

over_receipt_pos(p, sh) ==
    {sh.items[k].po : k \in {j \in 1..Len(sh.items) : over_items(p, sh, sh.items[j].po) # <<>>}}

over_receipt_failures_ignored(over_receipts) == FALSE
\* _has_over_receipt_failures
has_over_receipt_failures(over_receipts) ==
    \E po \in DOMAIN over_receipts : ~over_receipts[po].success

\* _build_process_receipt_result
build_process_receipt_result(items, over_receipts) ==
    [success |-> ~has_over_receipt_failures(over_receipts), items |-> items,
     over_receipts |-> over_receipts]

\* _check_over_receipts and the result: the procurement handler may fail for
\* any of the over-received POs.
CheckOverReceipts(p) ==
    /\ pc[p] = "pr_over"
    /\ LET sh == ShipmentDoc(op[p].shipment_id)
           pos == over_receipt_pos(p, sh)
       IN \E failed \in SUBSET pos :
            /\ failed # {} => faults < MaxFaults
            /\ faults' = IF failed # {} THEN faults + 1 ELSE faults
            /\ loc' = [loc EXCEPT ![p].retval =
                    build_process_receipt_result(loc[p].results,
                        [po \in pos |-> IF po \in failed
                                        THEN [success |-> FALSE, error |-> "Logged for retry"]
                                        ELSE [success |-> TRUE]])]
    /\ pc' = [pc EXCEPT ![p] = "req_commit"]
    /\ UNCHANGED <<itemVars, gapVars, rcptVars, op, idx, doc, err, preCall, stmt,
                   result, waited, opsStarted>>
    /\ UNCHANGED <<resv, payVars>>

\* -------------------------------------------------------- stock reservation
MsgReservePositive == <<"Reserve", "quantity", "must", "be", "positive">>
MsgInsufficientStock == <<"Insufficient", "stock", "for">>
MsgReservationNotFound == <<"Stock", "Reservation", "not", "found">>

\* A Stock Reservation document.
Reservation(item, sales_order, reserved_physical, reserved_declared, status) ==
    [item |-> item, sales_order |-> sales_order, reserved_physical |-> reserved_physical,
     reserved_declared |-> reserved_declared, status |-> status]

RECURSIVE reserved_any_status(_, _)
reserved_any_status(item, n) ==
    IF n = 0 THEN [rp |-> 0, rd |-> 0]
    ELSE LET rest == reserved_any_status(item, n - 1)
         IN IF resv[n].item = item
            THEN [rp |-> rest.rp + resv[n].reserved_physical,
                  rd |-> rest.rd + resv[n].reserved_declared]
            ELSE rest

RECURSIVE active_reserved(_, _)
\* SELECT COALESCE(SUM(reserved_physical), 0), COALESCE(SUM(reserved_declared), 0)
\* ... WHERE item = %s AND status = 'Active', over the reservations 1..n.
active_reserved(item, n) ==
    IF n = 0 THEN [rp |-> 0, rd |-> 0]
    ELSE LET rest == active_reserved(item, n - 1)
         IN IF resv[n].item = item /\ resv[n].status = "Active"
            THEN [rp |-> rest.rp + resv[n].reserved_physical,
                  rd |-> rest.rd + resv[n].reserved_declared]
            ELSE rest

\* get_available_stock(item): both reads see the committed tables.
get_available_stock(item) ==
    LET reserved == active_reserved(item, Len(resv))
    IN [physical_total |-> itemC[item].stock_physical,
        declared_total |-> itemC[item].stock_declared,
        reserved_physical |-> reserved.rp,
        reserved_declared |-> reserved.rd,
        available_physical |-> itemC[item].stock_physical - reserved.rp,
        available_declared |-> itemC[item].stock_declared - reserved.rd]

\* Requests: (item, qty).
ReserveRequests == Items \X {0 - 1, 0, 1, MaxQty, InitStock + 1}
SalesOrder(p) == IF p = "c1" THEN "SO-1" ELSE "SO-2"

\* reserve_stock up to the availability read: the guard on qty.
BeginReserveStock(p) ==
    /\ pc[p] = "idle" /\ opsStarted < MaxOps
    /\ \E r \in ReserveRequests :
        /\ op' = [op EXCEPT ![p] = [name |-> "reserve_stock", item |-> r[1],
                                    sales_order |-> SalesOrder(p), qty |-> r[2]]]
        /\ IF r[2] <= 0
           THEN /\ pc' = [pc EXCEPT ![p] = "req_rollback"]
                /\ err' = [err EXCEPT ![p] = ValidationError(MsgReservePositive)]
           ELSE /\ pc' = [pc EXCEPT ![p] = "rs_read"]
                /\ err' = err
    /\ opsStarted' = opsStarted + 1
    /\ UNCHANGED <<itemVars, gapVars, rcptVars, idx, doc, loc, preCall, stmt, result,
                   waited, resv, faults>>
    /\ UNCHANGED payVars

available_physical_is_total(stock, qty) == stock.physical_total < qty
\* if stock["available_physical"] < qty
insufficient_stock(stock, qty) == stock.available_physical < qty

\* stock = get_available_stock(item) and the availability check.
ReserveStockRead(p) ==
    /\ pc[p] = "rs_read"
    /\ LET stock == get_available_stock(op[p].item)
       IN /\ loc' = [loc EXCEPT ![p] = [retval |-> <<>>, stock |-> stock]]
          /\ IF insufficient_stock(stock, op[p].qty)
             THEN /\ pc' = [pc EXCEPT ![p] = "req_rollback"]
                  /\ err' = [err EXCEPT ![p] = ValidationError(MsgInsufficientStock)]
             ELSE /\ pc' = [pc EXCEPT ![p] = "rs_insert"]
                  /\ err' = err
    /\ UNCHANGED <<itemVars, gapVars, rcptVars, op, idx, doc, preCall, stmt, result,
                   waited, resv, opsStarted, faults>>
    /\ UNCHANGED payVars

reserved_declared_uncapped(qty, stock) == qty
\* "reserved_declared": min(qty, stock["available_declared"])
reserved_declared(qty, stock) == Min(qty, stock.available_declared)

\* reservation.insert(), frappe.db.commit() and the returned dict.
ReserveStockInsert(p) ==
    /\ pc[p] = "rs_insert"
    /\ resv' = Append(resv,
            Reservation(op[p].item, op[p].sales_order, op[p].qty,
                        reserved_declared(op[p].qty, loc[p].stock), "Active"))
    /\ Finish(p, CallResult(p, "ok", NoErr,
                [reservation |-> Len(resv) + 1,
                 available_physical |-> loc[p].stock.available_physical - op[p].qty]))
    /\ UNCHANGED <<itemVars, gapVars, rcptVars, opsStarted, faults>>
    /\ UNCHANGED payVars

status_always_active(current_status) == FALSE
\* if current_status != "Active"
already_inactive(current_status) == current_status # "Active"

\* release_reservation up to the write: the status read and the two early exits.
BeginReleaseReservation(p) ==
    /\ pc[p] = "idle" /\ opsStarted < MaxOps
    /\ \E r \in 1..(Len(resv) + 1) :
        LET current_status == IF r \in DOMAIN resv THEN resv[r].status ELSE ""
        IN IF current_status # "" /\ already_inactive(current_status)
           THEN /\ result' = [result EXCEPT ![p] =
                        [op |-> "release_reservation", status |-> "ok", error |-> NoErr,
                         value |-> [status |-> "already_inactive", reservation |-> r],
                         waited |-> FALSE]]
                /\ UNCHANGED <<pc, op, err>>
           ELSE /\ op' = [op EXCEPT ![p] = [name |-> "release_reservation",
                                            reservation |-> r]]
                /\ result' = result
                /\ IF current_status = ""
                   THEN /\ pc' = [pc EXCEPT ![p] = "req_rollback"]
                        /\ err' = [err EXCEPT ![p] = ValidationError(MsgReservationNotFound)]
                   ELSE /\ pc' = [pc EXCEPT ![p] = "rl_set"]
                        /\ err' = err
    /\ opsStarted' = opsStarted + 1
    /\ UNCHANGED <<itemVars, gapVars, rcptVars, idx, doc, loc, preCall, stmt, waited,
                   resv, faults>>
    /\ UNCHANGED payVars

\* frappe.db.set_value(..., "status", "Released"), frappe.db.commit(), return.
ReleaseReservationSet(p) ==
    /\ pc[p] = "rl_set"
    /\ resv' = [resv EXCEPT ![op[p].reservation].status = "Released"]
    /\ Finish(p, CallResult(p, "ok", NoErr,
                [status |-> "released", reservation |-> op[p].reservation]))
    /\ UNCHANGED <<itemVars, gapVars, rcptVars, opsStarted, faults>>
    /\ UNCHANGED payVars

\* ---------------------------------------------------------- end of request
\* The request returns: the framework commits its transaction.
RequestCommit(p) ==
    /\ pc[p] = "req_commit"
    /\ CommitItems(p)
    /\ CommitGaps(p)
    /\ CommitReceipt(p)
    /\ Finish(p, CallResult(p, "ok", NoErr, loc[p].retval))
    /\ UNCHANGED <<nextGap, consumed, opsStarted, faults>>
    /\ UNCHANGED <<resv, payVars>>

\* The request raises: the framework rolls its transaction back.
RequestRollback(p) ==
    /\ pc[p] = "req_rollback"
    /\ RollbackItems(p)
    /\ RollbackGaps(p)
    /\ RollbackReceipt(p)
    /\ Finish(p, CallResult(p, "error", err[p], loc[p].retval))
    /\ UNCHANGED <<nextGap, consumed, opsStarted, faults>>
    /\ UNCHANGED <<resv, payVars>>

\* A statement waiting for a row lock held by another transaction is ended by
\* the store with a lock-wait timeout or, in a wait cycle, a deadlock error.
LockWaitFailure(p) ==
    /\ Waits(p)
    /\ faults < MaxFaults
    /\ faults' = faults + 1
    /\ \E m \in {MsgLockWait, MsgDeadlock} :
            err' = [err EXCEPT ![p] =
                IF op[p].name = "process_receipt"
                THEN receipt_failure(OperationalError(m))
                ELSE OperationalError(m)]
    /\ pc' = [pc EXCEPT ![p] =
            IF op[p].name = "resolve_gaps" THEN "rg_except" ELSE "req_rollback"]
    /\ UNCHANGED <<itemVars, gapVars, rcptVars, op, idx, doc, loc, preCall, stmt,
                   result, waited, opsStarted>>
    /\ UNCHANGED <<resv, payVars>>

\* -------------------------------------------------------------- settlement
\* Exchange rates are held in tenths (30.0 is 300), amounts in whole units, so
\* an fx_variance is in tenths as well.  Dates are days counted from today.
Invoices == {"INV-1"}

MsgDuplicatePayment == <<"Duplicate", "payment">>
MsgInstallmentNotFound == <<"Payment", "plan", "installment", "not", "found", "in", "invoice">>
DoesNotExistError(m) == [type |-> "DoesNotExistError", msg |-> m]
TimestampMismatchError(m) == [type |-> "TimestampMismatchError", msg |-> m]

\* An Invoice row; modified is the document's change stamp.
Invoice(status, actual_exchange_rate, payment_terms, total_amount, modified) ==
    [status |-> status, actual_exchange_rate |-> actual_exchange_rate,
     payment_terms |-> payment_terms, total_amount |-> total_amount,
     invoice_date |-> 0, modified |-> modified, revalued |-> FALSE]

\* A NexPort Payment Plan row as generate_payment_schedule appends it.
Installment(installment_number, due_date, amount, status) ==
    [installment_number |-> installment_number, due_date |-> due_date,
     amount |-> amount, status |-> status, paid_amount |-> 0, paid_date |-> "",
     payment_reference |-> "", exchange_rate_variance |-> 0, payment_execution |-> ""]

\* The mark a transaction leaves on a plan row it has deleted.
Deleted == [status |-> "Deleted"]

NoWrites == [inv |-> <<>>, plan |-> <<>>, exec |-> <<>>]

\* The rows p's transaction reads: its own uncommitted version where it has one.
InvRow(p, v) == IF v \in DOMAIN payW[p].inv THEN payW[p].inv[v] ELSE invC[v]
PlanRow(p, k) == IF k \in DOMAIN payW[p].plan THEN payW[p].plan[k] ELSE planC[k]
ExecRows(p) == payW[p].exec @@ execC
\* The plan rows of invoice v that p's transaction sees.
PlanKeys(p, v) ==
    {k \in DOMAIN planC \cup DOMAIN payW[p].plan : k[1] = v /\ PlanRow(p, k) # Deleted}

\* A write of a row proceeds only when no other transaction has written it.
InvLockFree(p, v) == \A q \in Procs \ {p} : v \notin DOMAIN payW[q].inv
PlanLockFree(p, k) == \A q \in Procs \ {p} : k \notin DOMAIN payW[q].plan

\* frappe.db.savepoint(name)
savepoint(p, name) ==
    savepoints' = [savepoints EXCEPT ![p] = (name :> payW[p]) @@ @]

rollback_to_nothing(p, save_point) == payW' = payW
\* frappe.db.rollback(save_point=name): the rows written since are undone.
rollback(p, save_point) ==
    payW' = [payW EXCEPT ![p] = savepoints[p][save_point]]

\* frappe.log_error(title)
log_error(title) == error_log' = Append(error_log, title)

\* A service call of p returns or raises inside its request; the request's
\* transaction stays open.
PayReturn(p, res) ==
    /\ pc' = [pc EXCEPT ![p] = "pay_open"]
    /\ result' = [result EXCEPT ![p] = res]
    /\ op' = [op EXCEPT ![p] = NoCall]
    /\ loc' = [loc EXCEPT ![p] = NoLoc]
    /\ doc' = [doc EXCEPT ![p] = <<>>]
    /\ err' = [err EXCEPT ![p] = NoErr]

\* ---------------------------------------------------------- record_payment
PaymentRequest(invoice, installment_no, amount_paid, exchange_rate, remittance_reference) ==
    [name |-> "record_payment", invoice |-> invoice, installment_no |-> installment_no,
     payment_date |-> "2026-02-20", amount_paid |-> amount_paid,
     exchange_rate |-> exchange_rate, remittance_reference |-> remittance_reference]

\* Remittances: REF-1 pays 1000 at 31.5, REF-2 pays 500 at 32.0; INV-9 does not exist.
PaymentRequests ==
    {PaymentRequest("INV-1", n, 1000, 315, "REF-1") : n \in 1..3}
    \cup {PaymentRequest("INV-1", n, 500, 320, "REF-2") : n \in 1..2}
    \cup {PaymentRequest("INV-9", 1, 500, 320, "REF-2")}

\* f"{self.invoice}|{self.installment}|{self.remittance_reference or ''}"
idempotency_key(invoice, installment, remittance_reference) ==
    <<invoice, "|", installment, "|", remittance_reference>>

\* frappe.db.exists("NexPort Payment Execution", {"idempotency_key": key})
duplicate_exists(p, key) ==
    \E n \in DOMAIN ExecRows(p) : ExecRows(p)[n].idempotency_key = key

\* flt(inv_doc.actual_exchange_rate) or 1.0
DefaultInvoiceRate == 10
invoice_rate(actual_exchange_rate) ==
    IF actual_exchange_rate # 0 THEN actual_exchange_rate ELSE DefaultInvoiceRate

fx_variance_reversed(exchange_rate, rate, amount_paid) ==
    (rate - exchange_rate) * amount_paid
\* (flt(exchange_rate) - invoice_rate) * flt(amount_paid)
fx_variance(exchange_rate, rate, amount_paid) ==
    (exchange_rate - rate) * amount_paid

\* The NexPort Payment Execution document record_payment inserts.
PaymentExecution(o, key, variance) ==
    [invoice |-> o.invoice, installment |-> o.installment_no,
     payment_date |-> o.payment_date, amount_paid |-> o.amount_paid,
     exchange_rate |-> o.exchange_rate,
     remittance_reference |-> o.remittance_reference,
     idempotency_key |-> key, fx_variance |-> variance]

\* frappe.db.savepoint("payment_phase1"); the call may open the request or
\* follow earlier calls of the same request.
BeginRecordPayment(p) ==
    /\ pc[p] \in {"idle", "pay_open"} /\ opsStarted < MaxOps
    /\ \E r \in PaymentRequests : op' = [op EXCEPT ![p] = r]
    /\ savepoint(p, "payment_phase1")
    /\ pc' = [pc EXCEPT ![p] = "rp_get_doc"]
    /\ opsStarted' = opsStarted + 1
    /\ UNCHANGED <<itemVars, gapVars, rcptVars, idx, doc, loc, err, preCall, stmt,
                   result, waited, resv, invC, planC, execC, payW, nextExec,
                   error_log, faults>>

\* inv_doc = frappe.get_doc("Invoice", invoice), invoice_rate and fx_variance.
RecordPaymentGetDoc(p) ==
    /\ pc[p] = "rp_get_doc"
    /\ IF op[p].invoice \notin DOMAIN invC
       THEN /\ err' = [err EXCEPT ![p] = DoesNotExistError(<<"Invoice", "not", "found">>)]
            /\ pc' = [pc EXCEPT ![p] = "rp_except"]
            /\ loc' = loc
       ELSE LET rate == invoice_rate(InvRow(p, op[p].invoice).actual_exchange_rate)
            IN /\ loc' = [loc EXCEPT ![p] =
                        [retval |-> <<>>, invoice_rate |-> rate,
                         fx_variance |->
                            fx_variance(op[p].exchange_rate, rate, op[p].amount_paid)]]
               /\ pc' = [pc EXCEPT ![p] = "rp_insert"]
               /\ err' = err
    /\ UNCHANGED <<itemVars, gapVars, rcptVars, op, idx, doc, preCall, stmt, result,
                   waited, resv, payVars, opsStarted, faults>>

\* exec_doc.insert(): before_insert sets the key and checks for a duplicate.
RecordPaymentInsert(p) ==
    /\ pc[p] = "rp_insert"
    /\ LET key == idempotency_key(op[p].invoice, op[p].installment_no,
                                  op[p].remittance_reference)
       IN IF duplicate_exists(p, key)
          THEN /\ err' = [err EXCEPT ![p] = ValidationError(MsgDuplicatePayment)]
               /\ pc' = [pc EXCEPT ![p] = "rp_except"]
               /\ UNCHANGED <<loc, payW, nextExec>>
          ELSE /\ payW' = [payW EXCEPT ![p].exec =
                    (nextExec :> PaymentExecution(op[p], key, loc[p].fx_variance)) @@ @]
               /\ nextExec' = nextExec + 1
               /\ loc' = [loc EXCEPT ![p] =
                    [retval |-> <<>>, invoice_rate |-> loc[p].invoice_rate,
                     fx_variance |-> loc[p].fx_variance, exec_name |-> nextExec]]
               /\ pc' = [pc EXCEPT ![p] = "rp_update"]
               /\ err' = err
    /\ UNCHANGED <<itemVars, gapVars, rcptVars, op, idx, doc, preCall, stmt, result,
                   waited, resv, invC, planC, execC, savepoints, error_log,
                   opsStarted, faults>>

\* UPDATE `tabNexPort Payment Plan` SET status = 'Paid', paid_amount, paid_date,
\* payment_reference, exchange_rate_variance WHERE parent AND installment_number.
paid_installment_sql(row, amount_paid, payment_date, exec_name, variance) ==
    [row EXCEPT !.status = "Paid", !.paid_amount = amount_paid,
                !.paid_date = payment_date, !.payment_reference = exec_name,
                !.exchange_rate_variance = variance]

update_where_installment(p, parent, installment_number) ==
    {k \in DOMAIN planC \cup DOMAIN payW[p].plan :
        PlanRow(p, k) # Deleted /\ k[2] = installment_number}
\* WHERE parent = %s AND installment_number = %s: the rows the UPDATE matches.
update_where(p, parent, installment_number) ==
    {k \in DOMAIN planC \cup DOMAIN payW[p].plan :
        PlanRow(p, k) # Deleted /\ k[1] = parent /\ k[2] = installment_number}

RecordPaymentUpdate(p) ==
    /\ pc[p] = "rp_update"
    /\ LET rows == update_where(p, op[p].invoice, op[p].installment_no)
       IN /\ \A k \in rows : PlanLockFree(p, k)
          /\ payW' = [payW EXCEPT ![p].plan =
                [k \in rows |->
                    paid_installment_sql(PlanRow(p, k), op[p].amount_paid,
                        op[p].payment_date, loc[p].exec_name, loc[p].fx_variance)]
                @@ @]
    /\ pc' = [pc EXCEPT ![p] = "rp_sync"]
    /\ UNCHANGED <<itemVars, gapVars, rcptVars, op, idx, doc, loc, err, preCall, stmt,
                   result, waited, resv, invC, planC, execC, savepoints, nextExec,
                   error_log, opsStarted, faults>>

\* _sync_invoice_status: the status to set, "" for none.
status_for(statuses) ==
    IF statuses = {"Paid"} THEN "Paid"
    ELSE IF "Paid" \in statuses THEN "Partial"
    ELSE ""

\* _sync_invoice_status: frappe.db.get_all("NexPort Payment Plan", parent = ...).
SyncInvoiceStatusRead(p) ==
    /\ pc[p] = "rp_sync"
    /\ LET statuses == {PlanRow(p, k).status : k \in PlanKeys(p, op[p].invoice)}
       IN IF status_for(statuses) = ""
          THEN PayReturn(p, CallResult(p, "ok", NoErr,
                            [name |-> loc[p].exec_name, invoice |-> op[p].invoice,
                             installment |-> op[p].installment_no]))
          ELSE /\ loc' = [loc EXCEPT ![p] =
                    [retval |-> <<>>, invoice_rate |-> loc[p].invoice_rate,
                     fx_variance |-> loc[p].fx_variance,
                     exec_name |-> loc[p].exec_name,
                     status |-> status_for(statuses)]]
               /\ pc' = [pc EXCEPT ![p] = "rp_set"]
               /\ UNCHANGED <<op, doc, err, result>>
    /\ UNCHANGED <<itemVars, gapVars, rcptVars, idx, preCall, stmt, waited, resv,
                   payVars, opsStarted, faults>>

\* _sync_invoice_status: frappe.db.set_value("Invoice", name, "status", ...),
\* and return exec_doc.name.
SyncInvoiceStatusSet(p) ==
    /\ pc[p] = "rp_set"
    /\ InvLockFree(p, op[p].invoice)
    /\ payW' = [payW EXCEPT ![p].inv =
            (op[p].invoice :> [InvRow(p, op[p].invoice) EXCEPT
                                    !.status = loc[p].status, !.modified = @ + 1]) @@ @]
    /\ PayReturn(p, CallResult(p, "ok", NoErr,
                    [name |-> loc[p].exec_name, invoice |-> op[p].invoice,
                     installment |-> op[p].installment_no]))
    /\ UNCHANGED <<itemVars, gapVars, rcptVars, idx, preCall, stmt, waited, resv,
                   invC, planC, execC, savepoints, nextExec, error_log,
                   opsStarted, faults>>

\* except Exception: frappe.db.rollback(save_point="payment_phase1"); raise
RecordPaymentExcept(p) ==
    /\ pc[p] = "rp_except"
    /\ rollback(p, "payment_phase1")
    /\ PayReturn(p, CallResult(p, "error", err[p], <<>>))
    /\ UNCHANGED <<itemVars, gapVars, rcptVars, idx, preCall, stmt, waited, resv,
                   invC, planC, execC, savepoints, nextExec, error_log,
                   opsStarted, faults>>

\* A statement of the try block fails: the server reports an error for the
\* insert, the UPDATE, the SELECT or the set_value.
RecordPaymentStoreFailure(p) ==
    /\ pc[p] \in {"rp_insert", "rp_update", "rp_sync", "rp_set"}
    /\ faults < MaxFaults
    /\ faults' = faults + 1
    /\ err' = [err EXCEPT ![p] = OperationalError(MsgOtherDb)]
    /\ pc' = [pc EXCEPT ![p] = "rp_except"]
    /\ UNCHANGED <<itemVars, gapVars, rcptVars, op, idx, doc, loc, preCall, stmt,
                   result, waited, resv, payVars, opsStarted>>

\* ----------------------------------------------------- trigger_revaluation
\* frappe.db.savepoint("payment_phase2"), after a record_payment of the same
\* request has returned the name of its Payment Execution.
BeginTriggerRevaluation(p) ==
    /\ pc[p] = "pay_open" /\ opsStarted < MaxOps
    /\ result[p].op = "record_payment" /\ result[p].status = "ok"
    /\ op' = [op EXCEPT ![p] =
            [name |-> "trigger_revaluation", invoice |-> result[p].value.invoice,
             payment_execution |-> result[p].value.name]]
    /\ savepoint(p, "payment_phase2")
    /\ pc' = [pc EXCEPT ![p] = "tr_revalue"]
    /\ opsStarted' = opsStarted + 1
    /\ UNCHANGED <<itemVars, gapVars, rcptVars, idx, doc, loc, err, preCall, stmt,
                   result, waited, resv, invC, planC, execC, payW, nextExec,
                   error_log, faults>>

\* finance_service.revalue_on_payment(invoice): the invoice is revalued, or the
\* revaluation fails before or after it has written.
RevalueOnPayment(p) ==
    /\ pc[p] = "tr_revalue"
    /\ \E written \in BOOLEAN, failed \in BOOLEAN :
        /\ written \/ failed
        /\ failed => faults < MaxFaults
        /\ faults' = IF failed THEN faults + 1 ELSE faults
        /\ IF written
           THEN /\ InvLockFree(p, op[p].invoice)
                /\ payW' = [payW EXCEPT ![p].inv =
                        (op[p].invoice :> [InvRow(p, op[p].invoice) EXCEPT
                                                !.revalued = TRUE]) @@ @]
           ELSE payW' = payW
        /\ IF failed
           THEN /\ err' = [err EXCEPT ![p] = OperationalError(MsgOtherDb)]
                /\ pc' = [pc EXCEPT ![p] = "tr_except"]
                /\ UNCHANGED <<op, doc, loc, result>>
           ELSE PayReturn(p, CallResult(p, "ok", NoErr, [invoice |-> op[p].invoice]))
    /\ UNCHANGED <<itemVars, gapVars, rcptVars, idx, preCall, stmt, waited, resv,
                   invC, planC, execC, savepoints, nextExec, error_log, opsStarted>>

TriggerRevaluationReRaises(p) ==
    /\ pc[p] = "tr_except"
    /\ rollback(p, "payment_phase2")
    /\ log_error(<<"Revaluation failed for", op[p].invoice, op[p].payment_execution>>)
    /\ PayReturn(p, CallResult(p, "error", err[p], <<>>))
    /\ UNCHANGED <<itemVars, gapVars, rcptVars, idx, preCall, stmt, waited, resv,
                   invC, planC, execC, savepoints, nextExec, opsStarted, faults>>

\* except Exception: frappe.db.rollback(save_point="payment_phase2");
\* frappe.log_error(...); the call returns None.  The result notes the logged
\* exception and whether the rollback had anything to undo.
TriggerRevaluationExcept(p) ==
    /\ pc[p] = "tr_except"
    /\ rollback(p, "payment_phase2")
    /\ log_error(<<"Revaluation failed for", op[p].invoice, op[p].payment_execution>>)
    /\ PayReturn(p, CallResult(p, "ok", NoErr,
                    [invoice |-> op[p].invoice, logged |-> err[p],
                     undone |-> payW[p] # savepoints[p]["payment_phase2"]]))
    /\ UNCHANGED <<itemVars, gapVars, rcptVars, idx, preCall, stmt, waited, resv,
                   invC, planC, execC, savepoints, nextExec, opsStarted, faults>>

\* ------------------------------------------------------ end of the request
\* The rows a transaction has written, laid over the committed ones.
Committed(rows, written) ==
    [k \in {j \in DOMAIN rows \cup DOMAIN written :
                (written @@ rows)[j] # Deleted} |-> (written @@ rows)[k]]

\* The request ends normally and frappe commits its transaction.
PayRequestCommit(p) ==
    /\ pc[p] = "pay_open"
    /\ invC' = Committed(invC, payW[p].inv)
    /\ planC' = Committed(planC, payW[p].plan)
    /\ execC' = Committed(execC, payW[p].exec)
    /\ payW' = [payW EXCEPT ![p] = NoWrites]
    /\ savepoints' = [savepoints EXCEPT ![p] = <<>>]
    /\ pc' = [pc EXCEPT ![p] = "idle"]
    /\ UNCHANGED <<itemVars, gapVars, rcptVars, op, idx, doc, loc, err, preCall,
                   stmt, result, waited, resv, nextExec, error_log, opsStarted,
                   faults>>

\* The request lets the exception of its last call escape and frappe rolls
\* its transaction back.
PayRequestRollback(p) ==
    /\ pc[p] = "pay_open" /\ result[p].status = "error"
    /\ payW' = [payW EXCEPT ![p] = NoWrites]
    /\ savepoints' = [savepoints EXCEPT ![p] = <<>>]
    /\ pc' = [pc EXCEPT ![p] = "idle"]
    /\ UNCHANGED <<itemVars, gapVars, rcptVars, op, idx, doc, loc, err, preCall,
                   stmt, result, waited, resv, invC, planC, execC, nextExec,
                   error_log, opsStarted, faults>>

\* ------------------------------------------------- apply_payment_execution
\* The submitted Payment Execution documents whose on_submit hook makes the call.
Executions ==
    {[name |-> <<"PE", v, n>>, invoice |-> v, installment |-> n,
      payment_date |-> "2026-02-20"] : v \in {"INV-1"}, n \in 1..3}
    \cup {[name |-> <<"PE", "INV-9", 1>>, invoice |-> "INV-9", installment |-> 1,
           payment_date |-> "2026-02-20"]}

\* payment_plan_row.status = PAID, .paid_date, .payment_execution
paid_installment_doc(row, execution) ==
    [row EXCEPT !.status = "Paid", !.paid_date = execution.payment_date,
                !.payment_execution = execution.name]

\* all_paid / any_paid over invoice.payment_schedule
aggregate_status(rows, status) ==
    IF \A k \in DOMAIN rows : rows[k].status = "Paid" THEN "Paid"
    ELSE IF \E k \in DOMAIN rows : rows[k].status = "Paid" THEN "Partial"
    ELSE status

\* frappe.db.savepoint("payment_execution")
BeginApplyPaymentExecution(p) ==
    /\ pc[p] \in {"idle", "pay_open"} /\ opsStarted < MaxOps
    /\ \E e \in Executions :
          op' = [op EXCEPT ![p] = [name |-> "apply_payment_execution", execution |-> e]]
    /\ savepoint(p, "payment_execution")
    /\ pc' = [pc EXCEPT ![p] = "ap_get_doc"]
    /\ opsStarted' = opsStarted + 1
    /\ UNCHANGED <<itemVars, gapVars, rcptVars, idx, doc, loc, err, preCall, stmt,
                   result, waited, resv, invC, planC, execC, payW, nextExec,
                   error_log, faults>>

\* invoice = frappe.get_doc("Invoice", execution.invoice); the matching row is
\* looked up and marked, and invoice.status is derived, all on the loaded copy.
ApplyPaymentGetDoc(p) ==
    /\ pc[p] = "ap_get_doc"
    /\ LET e == op[p].execution
           k == <<e.invoice, e.installment>>
           schedule == [j \in PlanKeys(p, e.invoice) |-> PlanRow(p, j)]
           marked == [schedule EXCEPT ![k] = paid_installment_doc(@, e)]
       IN IF e.invoice \notin DOMAIN invC
          THEN /\ err' = [err EXCEPT ![p] = DoesNotExistError(<<"Invoice", "not", "found">>)]
               /\ pc' = [pc EXCEPT ![p] = "ap_except"]
               /\ doc' = doc
          ELSE IF k \notin DOMAIN schedule
          THEN /\ err' = [err EXCEPT ![p] = ValidationError(MsgInstallmentNotFound)]
               /\ pc' = [pc EXCEPT ![p] = "ap_except"]
               /\ doc' = doc
          ELSE /\ doc' = [doc EXCEPT ![p] =
                    [invoice |-> [InvRow(p, e.invoice) EXCEPT !.status =
                                    aggregate_status(marked, @)],
                     payment_schedule |-> marked]]
               /\ pc' = [pc EXCEPT ![p] = "ap_save"]
               /\ err' = err
    /\ UNCHANGED <<itemVars, gapVars, rcptVars, op, idx, loc, preCall, stmt, result,
                   waited, resv, payVars, opsStarted, faults>>

\* invoice.save(): the save locks the invoice row and refuses a document whose
\* modified stamp is no longer the stored one; otherwise it writes the invoice
\* row and every row of payment_schedule from the loaded copy.  (validate finds
\* a schedule and generates none.)  The locks are taken in one step.
ApplyPaymentSave(p) ==
    /\ pc[p] = "ap_save"
    /\ LET v == op[p].execution.invoice
       IN /\ InvLockFree(p, v)
          /\ \A k \in DOMAIN doc[p].payment_schedule : PlanLockFree(p, k)
          /\ IF InvRow(p, v).modified # doc[p].invoice.modified
             THEN /\ err' = [err EXCEPT ![p] =
                        TimestampMismatchError(<<"Document", "has", "been", "modified">>)]
                  /\ pc' = [pc EXCEPT ![p] = "ap_except"]
                  /\ UNCHANGED <<op, doc, loc, result, payW>>
             ELSE /\ payW' = [payW EXCEPT
                        ![p].inv = (v :> [doc[p].invoice EXCEPT !.modified = @ + 1]) @@ @,
                        ![p].plan = doc[p].payment_schedule @@ @]
                  /\ PayReturn(p, CallResult(p, "ok", NoErr,
                            [invoice |-> v,
                             installment |-> op[p].execution.installment]))
    /\ UNCHANGED <<itemVars, gapVars, rcptVars, idx, preCall, stmt, waited, resv,
                   invC, planC, execC, savepoints, nextExec, error_log,
                   opsStarted, faults>>

\* except Exception: rollback to the savepoint, frappe.log_error, raise
ApplyPaymentExcept(p) ==
    /\ pc[p] = "ap_except"
    /\ rollback(p, "payment_execution")
    /\ log_error(<<"Payment Service - apply_payment_execution", op[p].execution.name>>)
    /\ PayReturn(p, CallResult(p, "error", err[p], <<>>))
    /\ UNCHANGED <<itemVars, gapVars, rcptVars, idx, preCall, stmt, waited, resv,
                   invC, planC, execC, savepoints, nextExec, opsStarted, faults>>

\* ----------------------------------------------- mark_overdue_installments
overdue_from_today_sql(row) ==
    IF row.status = "Pending" /\ row.due_date <= 0
    THEN [row EXCEPT !.status = "Overdue"] ELSE row
\* UPDATE `tabNexPort Payment Plan` SET status = 'Overdue'
\* WHERE status = 'Pending' AND due_date < today
overdue_sql(row) ==
    IF row.status = "Pending" /\ row.due_date < 0
    THEN [row EXCEPT !.status = "Overdue"] ELSE row

\* The daily job in a transaction of its own: the UPDATE waits for the rows
\* other transactions have written, then frappe.db.commit(); an error is
\* logged and not raised.
MarkOverdueInstallments(p) ==
    /\ pc[p] = "idle" /\ opsStarted < MaxOps
    /\ opsStarted' = opsStarted + 1
    /\ \E failed \in BOOLEAN :
        /\ failed => faults < MaxFaults
        /\ faults' = IF failed THEN faults + 1 ELSE faults
        /\ IF failed
           THEN /\ log_error(<<"Payment Service - mark_overdue_installments">>)
                /\ planC' = planC
           ELSE /\ \A k \in DOMAIN planC : PlanLockFree(p, k)
                /\ planC' = [k \in DOMAIN planC |-> overdue_sql(planC[k])]
                /\ error_log' = error_log
        /\ result' = [result EXCEPT ![p] =
                [op |-> "mark_overdue_installments", status |-> "ok",
                 error |-> NoErr, value |-> [logged |-> failed], waited |-> FALSE]]
    /\ UNCHANGED <<itemVars, gapVars, rcptVars, callVars, waited, resv, invC, execC,
                   payW, savepoints, nextExec>>

\* ----------------------------------------------- generate_payment_schedule
PaymentTerms ==
    {"Net 30", "Net 60", "Net 90", "3 Installments", "6 Installments",
     "Immediate", "Custom"}

\* Days added to invoice_date by the single-installment terms.
NetDays(payment_terms) ==
    CASE payment_terms = "Immediate" -> 0
      [] payment_terms = "Net 30" -> 30
      [] payment_terms = "Net 60" -> 60
      [] payment_terms = "Net 90" -> 90

payment_schedule_unsplit(payment_terms, amount, due_date_base) ==
    IF payment_terms \in {"Immediate", "Net 30", "Net 60", "Net 90"}
    THEN <<Installment(1, due_date_base + NetDays(payment_terms), amount, "Pending")>>
    ELSE IF payment_terms = "3 Installments"
    THEN [n \in 1..3 |-> Installment(n, due_date_base + 30 * n, amount, "Pending")]
    ELSE IF payment_terms = "6 Installments"
    THEN [n \in 1..6 |-> Installment(n, due_date_base + 30 * n, amount, "Pending")]
    ELSE <<>>

\* The rows appended for payment_terms, by installment_number (amounts are
\* multiples of 6 in this model, so amount / 3 and amount / 6 are exact).
payment_schedule(payment_terms, amount, due_date_base) ==
    IF payment_terms \in {"Immediate", "Net 30", "Net 60", "Net 90"}
    THEN <<Installment(1, due_date_base + NetDays(payment_terms), amount, "Pending")>>
    ELSE IF payment_terms = "3 Installments"
    THEN [n \in 1..3 |->
            Installment(n, due_date_base + 30 * n, amount \div 3, "Pending")]
    ELSE IF payment_terms = "6 Installments"
    THEN [n \in 1..6 |->
            Installment(n, due_date_base + 30 * n, amount \div 6, "Pending")]
    ELSE <<>>

\* The child rows invoice.save() leaves for invoice v when the document holds
\* rows: those rows, and no other row of v.
saved_schedule(p, v, rows) ==
    [k \in {<<v, n>> : n \in DOMAIN rows} |-> rows[k[2]]]
    @@ [k \in PlanKeys(p, v) |-> Deleted]

RecursionError == [type |-> "RecursionError", msg |-> <<"maximum", "recursion", "depth", "exceeded">>]

\* generate_payment_schedule(invoice) on a loaded, stored invoice.  With terms
\* that append no row the save's validate hook finds payment_terms without a
\* schedule and calls generate_payment_schedule again, without end.
GeneratePaymentSchedule(p) ==
    /\ pc[p] \in {"idle", "pay_open"} /\ opsStarted < MaxOps
    /\ opsStarted' = opsStarted + 1
    /\ \E v \in DOMAIN invC :
        LET invoice == InvRow(p, v)
            rows == payment_schedule(invoice.payment_terms, invoice.total_amount,
                                     invoice.invoice_date)
            outcome(status, error) ==
                [op |-> "generate_payment_schedule", status |-> status,
                 error |-> error, value |-> [invoice |-> v], waited |-> FALSE]
        IN /\ IF invoice.payment_terms = ""
              THEN /\ payW' = payW
                   /\ result' = [result EXCEPT ![p] = outcome("ok", NoErr)]
              ELSE IF DOMAIN rows = {}
              THEN /\ payW' = payW
                   /\ result' = [result EXCEPT ![p] = outcome("error", RecursionError)]
              ELSE /\ InvLockFree(p, v)
                   /\ \A k \in PlanKeys(p, v) : PlanLockFree(p, k)
                   /\ payW' = [payW EXCEPT
                        ![p].inv = (v :> [invoice EXCEPT !.modified = @ + 1]) @@ @,
                        ![p].plan = saved_schedule(p, v, rows) @@ @]
                   /\ result' = [result EXCEPT ![p] = outcome("ok", NoErr)]
    /\ pc' = [pc EXCEPT ![p] = "pay_open"]
    /\ UNCHANGED <<itemVars, gapVars, rcptVars, op, idx, doc, loc, err, preCall, stmt,
                   waited, resv, invC, planC, execC, savepoints, nextExec,
                   error_log, faults>>

\* ----------------------------------------------------------- Invoice.save
\* The edits a request makes to a stored invoice before it saves it; "" keeps
\* the stored payment_terms or status.
InvoiceEdits ==
    [payment_terms : {"", "Net 30", "3 Installments"}, status : {"", "Paid"},
     type : {"AP", "AR"}, is_rate_finalized : BOOLEAN]

\* Invoice.validate: generate_payment_schedule when payment_terms is set and
\* the document has no payment_schedule.
validate_generates(payment_terms, schedule) ==
    payment_terms # "" /\ schedule = {}

\* Invoice.on_update: past the three early returns, generate_payment_schedule
\* when payment_terms differs from the stored one.
on_update_generates(type, old_status, status, is_rate_finalized, old_terms, payment_terms) ==
    /\ type \in {"AP", "AP (Accounts Payable)"}
    /\ ~(old_status = "Paid" \/ status # "Paid")
    /\ ~is_rate_finalized
    /\ payment_terms # "" /\ payment_terms # old_terms

\* invoice.save() of an edited stored invoice: validate, the write of the
\* document, on_update.
InvoiceSave(p) ==
    /\ pc[p] \in {"idle", "pay_open"} /\ opsStarted < MaxOps
    /\ opsStarted' = opsStarted + 1
    /\ \E v \in DOMAIN invC, e \in InvoiceEdits :
        LET previous == InvRow(p, v)
            terms == IF e.payment_terms = "" THEN previous.payment_terms
                     ELSE e.payment_terms
            status == IF e.status = "" THEN previous.status ELSE e.status
            invoice == [previous EXCEPT !.payment_terms = terms, !.status = status,
                                        !.modified = @ + 1]
            rows == payment_schedule(terms, invoice.total_amount, invoice.invoice_date)
            regenerate ==
                \/ validate_generates(terms, PlanKeys(p, v))
                \/ on_update_generates(e.type, previous.status, status,
                                       e.is_rate_finalized, previous.payment_terms, terms)
            outcome(s, error) ==
                [op |-> "Invoice.save", status |-> s, error |-> error,
                 value |-> [invoice |-> v, generated |-> regenerate], waited |-> FALSE]
        IN IF regenerate /\ DOMAIN rows = {}
           THEN /\ payW' = payW
                /\ result' = [result EXCEPT ![p] = outcome("error", RecursionError)]
           ELSE /\ InvLockFree(p, v)
                /\ \A k \in PlanKeys(p, v) : PlanLockFree(p, k)
                /\ payW' = [payW EXCEPT
                      ![p].inv = (v :> invoice) @@ @,
                      ![p].plan = (IF regenerate THEN saved_schedule(p, v, rows)
                                   ELSE <<>>) @@ @]
                /\ result' = [result EXCEPT ![p] = outcome("ok", NoErr)]
    /\ pc' = [pc EXCEPT ![p] = "pay_open"]
    /\ UNCHANGED <<itemVars, gapVars, rcptVars, op, idx, doc, loc, err, preCall, stmt,
                   waited, resv, invC, planC, execC, savepoints, nextExec,
                   error_log, faults>>

\* ------------------------------------------------------ settlement tables
\* The payment execution that paid installment 1 of INV-1 in an earlier request.
EarlierExecution ==
    PaymentExecution(PaymentRequest("INV-1", 1, 1000, 300, "REF-0"),
                     idempotency_key("INV-1", 1, "REF-0"), 0)

\* Invoice INV-1 with two open installments, the first past due.
TwoOpen(rate) ==
    [inv |-> "INV-1" :> Invoice("Unpaid", rate, "Custom", 2000, 1),
     plan |-> (<<"INV-1", 1>> :> Installment(1, -1, 1000, "Pending"))
              @@ (<<"INV-1", 2>> :> Installment(2, 30, 1000, "Pending")),
     exec |-> <<>>]

\* Invoice INV-1 with installment 1 paid, 2 pending past due and 3 overdue.
OnePaid(rate) ==
    [inv |-> "INV-1" :> Invoice("Partial", rate, "3 Installments", 3000, 2),
     plan |-> (<<"INV-1", 1>> :>
                  paid_installment_sql(Installment(1, -60, 1000, "Pending"),
                                       1000, "2026-01-05", 1, 0))
              @@ (<<"INV-1", 2>> :> Installment(2, -1, 1000, "Pending"))
              @@ (<<"INV-1", 3>> :> Installment(3, -1, 1000, "Overdue")),
     exec |-> 1 :> EarlierExecution]

\* The same beside a second invoice, INV-2, whose one installment is open and
\* due today.
TwoInvoices ==
    [inv |-> OnePaid(300).inv @@ ("INV-2" :> Invoice("Unpaid", 300, "Custom", 1000, 1)),
     plan |-> OnePaid(300).plan
              @@ (<<"INV-2", 2>> :> Installment(2, 0, 1000, "Pending")),
     exec |-> OnePaid(300).exec]

\* Invoice INV-1 before any schedule was generated for it.
Unscheduled(payment_terms) ==
    [inv |-> "INV-1" :> Invoice("Unpaid", 300, payment_terms, 6000, 1),
     plan |-> <<>>, exec |-> <<>>]

ScheduleTables ==
    {TwoOpen(300), OnePaid(300), Unscheduled("")}
    \cup {Unscheduled(t) : t \in PaymentTerms}

\* actual_exchange_rate unset, 30.0 and 32.0.
InvoiceRates == {0, 300, 320}
SettlementTables ==
    {TwoOpen(r) : r \in InvoiceRates} \cup {OnePaid(r) : r \in InvoiceRates}
    \cup {TwoInvoices}
NoInvoices == [inv |-> <<>>, plan |-> <<>>, exec |-> <<>>]

InitSettlement(t) ==
    /\ invC = t.inv
    /\ planC = t.plan
    /\ execC = t.exec
    /\ nextExec = Cardinality(DOMAIN t.exec) + 1
    /\ error_log = <<>>

\* ------------------------------------------------------------ specification
ItemRow0 == [stock_physical |-> InitStock, stock_declared |-> InitStock,
             cost_landed |-> 0, cost_declared |-> 0, price_history |-> <<>>]

Gap(n, product, general_name, gap_qty, resolved_qty, status, ref) ==
    [name |-> n, product |-> product, shipment |-> "SHP-0", po |-> "PO-0",
     general_name |-> general_name, gap_qty |-> gap_qty,
     resolved_qty |-> resolved_qty, status |-> status, resolution_ref |-> ref,
     deadline |-> DEFAULT_GAP_DEADLINE_DAYS]

\* Gap tables left by earlier informal receipts and declarations.
GapTables ==
    { <<>>,
      <<Gap(1, "ITEM-B", "CN-1", MaxQty, 0, "Pending", ""),
        Gap(2, "ITEM-A", "CN-1", MaxQty, 0, "Pending", ""),
        Gap(3, "ITEM-A", "CN-2", 1, 0, "Pending", ""),
        Gap(4, "ITEM-B", "CN-2", 1, 0, "Pending", "")>>,
      <<Gap(1, "ITEM-A", "CN-1", MaxQty, 1, "Partial", "DECL-0"),
        Gap(2, "ITEM-A", "CN-1", MaxQty, 0, "Pending", "")>> }

RECURSIVE OpenQty(_, _, _)
\* Unresolved quantity of product i over the gaps 1..n of table t.
OpenQty(t, i, n) ==
    IF n = 0 THEN 0
    ELSE OpenQty(t, i, n - 1)
         + (IF t[n].product = i THEN t[n].gap_qty - t[n].resolved_qty ELSE 0)

\* Stock of an item that has received its open gaps informally.
ItemRowFor(t, i) ==
    [ItemRow0 EXCEPT !.stock_physical = InitStock + OpenQty(t, i, Len(t))]

NoResult == [op |-> "none", status |-> "none", error |-> NoErr, value |-> <<>>,
             waited |-> FALSE]

\* No call is running and no transaction is open.
InitCallers ==
    /\ itemW = [p \in Procs |-> <<>>]
    /\ pend = [p \in Procs |-> NoDelta]
    /\ undo = [p \in Procs |-> <<>>]
    /\ gapW = [p \in Procs |-> <<>>]
    /\ poC = [l \in POLines |-> 0]
    /\ poW = [p \in Procs |-> <<>>]
    /\ shipC = [s \in ReceiptCases |-> s \in ReceivedEarlier]
    /\ shipW = [p \in Procs |-> <<>>]
    /\ payW = [p \in Procs |-> NoWrites]
    /\ savepoints = [p \in Procs |-> <<>>]
    /\ pc = [p \in Procs |-> "idle"]
    /\ op = [p \in Procs |-> NoCall]
    /\ idx = [p \in Procs |-> 0]
    /\ doc = [p \in Procs |-> <<>>]
    /\ loc = [p \in Procs |-> NoLoc]
    /\ err = [p \in Procs |-> NoErr]
    /\ preCall = [p \in Procs |-> NoPreCall]
    /\ stmt = [p \in Procs |-> NoStmt]
    /\ result = [p \in Procs |-> NoResult]
    /\ waited = [p \in Procs |-> FALSE]
    /\ opsStarted = 0
    /\ faults = 0

\* The store holds one of the gap tables and the stock that goes with it.
InitStore(t) ==
    /\ gapC = t
    /\ nextGap = Len(t) + 1
    /\ consumed = [n \in DOMAIN t |-> t[n].resolved_qty]
    /\ itemC = [i \in Items |-> ItemRowFor(t, i)]
    /\ applied = [i \in Items |->
            [physical |-> ItemRowFor(t, i).stock_physical,
             declared |-> ItemRowFor(t, i).stock_declared]]

Init ==
    /\ InitCallers
    /\ \E t \in GapTables : InitStore(t)
    /\ resv = <<>>
    /\ InitSettlement(NoInvoices)

\* Ledger only: no gaps, stock consumed by deliveries, costs revalued.
InitLedger ==
    /\ InitCallers
    /\ InitStore(<<>>)
    /\ resv = <<>>
    /\ InitSettlement(NoInvoices)

Next ==
    \E p \in Procs :
        \/ BeginDeductStock(p)
        \/ DeductStockRow(p)
        \/ BeginProcessReceipt(p)
        \/ ReceiptStock(p)
        \/ ReceiptPOLine(p)
        \/ MarkReceiptProcessed(p)
        \/ CheckOverReceipts(p)
        \/ BeginResolveGaps(p)
        \/ ResolveGapsSelect(p)
        \/ ConsumeGap(p)
        \/ ResolveGapsUpdateItem(p)
        \/ ResolveGapsCommit(p)
        \/ ResolveGapsExcept(p)
        \/ ResolveGapsStoreFailure(p)
        \/ RequestCommit(p)
        \/ RequestRollback(p)
        \/ LockWaitFailure(p)

Spec == Init /\ [][Next]_vars

NextLedger ==
    \E p \in Procs :
        \/ BeginDeductStock(p)
        \/ DeductStockRow(p)
        \/ BeginUpdateCost(p)
        \/ UpdateCostDelta(p)
        \/ RecordPriceChangeGetDoc(p)
        \/ RecordPriceChangeSave(p)
        \/ RequestCommit(p)
        \/ RequestRollback(p)
        \/ LockWaitFailure(p)

SpecLedger == InitLedger /\ [][NextLedger]_vars

\* Receipts only, over every shipment case and with failures of the statements
\* of the try block.
NextReceipt ==
    \E p \in Procs :
        \/ BeginProcessReceiptCase(p)
        \/ ReceiptStock(p)
        \/ ReceiptPOLine(p)
        \/ MarkReceiptProcessed(p)
        \/ CheckOverReceipts(p)
        \/ ReceiptStoreFailure(p)
        \/ RequestCommit(p)
        \/ RequestRollback(p)
        \/ LockWaitFailure(p)

SpecReceipt == Init /\ [][NextReceipt]_vars

\* Reservation tables left by earlier requests.
ReservationTables ==
    { <<>>,
      <<Reservation("ITEM-A", "SO-0", 1, 1, "Active"),
        Reservation("ITEM-A", "SO-0", 1, 1, "Released"),
        Reservation("ITEM-B", "SO-0", 1, 1, "Cancelled")>> }

\* Items as earlier formal and informal receipts left them (after an informal
\* receipt an item's stock_physical exceeds its stock_declared).
InitReserve ==
    /\ InitCallers
    /\ \E t \in GapTables : InitStore(t)
    /\ resv \in ReservationTables
    /\ InitSettlement(NoInvoices)

NextReserve ==
    \E p \in Procs :
        \/ BeginReserveStock(p)
        \/ ReserveStockRead(p)
        \/ ReserveStockInsert(p)
        \/ BeginReleaseReservation(p)
        \/ ReleaseReservationSet(p)
        \/ RequestRollback(p)

SpecReserve == InitReserve /\ [][NextReserve]_vars

\* Reservations and releases interleaved with deliveries, receipts and
\* declarations on the same items.
NextReserveStock ==
    \E p \in Procs :
        \/ BeginReserveStock(p)
        \/ ReserveStockRead(p)
        \/ ReserveStockInsert(p)
        \/ BeginReleaseReservation(p)
        \/ ReleaseReservationSet(p)
        \/ BeginDeductStock(p)
        \/ DeductStockRow(p)
        \/ BeginProcessReceipt(p)
        \/ ReceiptStock(p)
        \/ ReceiptPOLine(p)
        \/ MarkReceiptProcessed(p)
        \/ CheckOverReceipts(p)
        \/ BeginResolveGaps(p)
        \/ ResolveGapsSelect(p)
        \/ ConsumeGap(p)
        \/ ResolveGapsUpdateItem(p)
        \/ ResolveGapsCommit(p)
        \/ ResolveGapsExcept(p)
        \/ ResolveGapsStoreFailure(p)
        \/ RequestCommit(p)
        \/ RequestRollback(p)
        \/ LockWaitFailure(p)

SpecReserveStock == InitReserve /\ [][NextReserveStock]_vars

\* ------------------------------------------------ settlement specifications
\* Payments against INV-1, callers overlapping, with failures of the statements.
InitPayment ==
    /\ InitCallers
    /\ InitStore(<<>>)
    /\ resv = <<>>
    /\ \E t \in SettlementTables : InitSettlement(t)

NextPayment ==
    \E p \in Procs :
        \/ BeginRecordPayment(p)
        \/ RecordPaymentGetDoc(p)
        \/ RecordPaymentInsert(p)
        \/ RecordPaymentUpdate(p)
        \/ SyncInvoiceStatusRead(p)
        \/ SyncInvoiceStatusSet(p)
        \/ RecordPaymentExcept(p)
        \/ RecordPaymentStoreFailure(p)
        \/ BeginTriggerRevaluation(p)
        \/ RevalueOnPayment(p)
        \/ TriggerRevaluationExcept(p)
        \/ PayRequestCommit(p)
        \/ PayRequestRollback(p)

SpecPayment == InitPayment /\ [][NextPayment]_vars

\* Installments paid through record_payment and through submitted Payment
\* Executions while the daily job marks overdue rows.
NextInstallment ==
    \E p \in Procs :
        \/ BeginRecordPayment(p)
        \/ RecordPaymentGetDoc(p)
        \/ RecordPaymentInsert(p)
        \/ RecordPaymentUpdate(p)
        \/ SyncInvoiceStatusRead(p)
        \/ SyncInvoiceStatusSet(p)
        \/ RecordPaymentExcept(p)
        \/ BeginApplyPaymentExecution(p)
        \/ ApplyPaymentGetDoc(p)
        \/ ApplyPaymentSave(p)
        \/ ApplyPaymentExcept(p)
        \/ MarkOverdueInstallments(p)
        \/ PayRequestCommit(p)
        \/ PayRequestRollback(p)

SpecInstallment == InitPayment /\ [][NextInstallment]_vars

\* Schedules generated by direct calls and by the hooks of Invoice.save.
InitSchedule ==
    /\ InitCallers
    /\ InitStore(<<>>)
    /\ resv = <<>>
    /\ \E t \in ScheduleTables : InitSettlement(t)

NextSchedule ==
    \E p \in Procs :
        \/ GeneratePaymentSchedule(p)
        \/ InvoiceSave(p)
        \/ PayRequestCommit(p)
        \/ PayRequestRollback(p)

SpecSchedule == InitSchedule /\ [][NextSchedule]_vars

\* ------------------------------------------------------------------ claims
StockCalls == {"deduct_stock", "process_receipt", "resolve_gaps"}
Failing(p) == pc[p] \in {"req_rollback", "rg_except"}
Max(a, b) == IF a >= b THEN a ELSE b
Consumed(n) == IF n \in DOMAIN consumed THEN consumed[n] ELSE 0

RECURSIVE OpenTotal(_, _)
\* Sum of gap_qty - resolved_qty over the gaps named in S of table t.
OpenTotal(t, S) ==
    IF S = {} THEN 0
    ELSE LET n == CHOOSE x \in S : TRUE
         IN (t[n].gap_qty - t[n].resolved_qty) + OpenTotal(t, S \ {n})

\* The step in which p's resolve_gaps call commits and returns.
ResolveGapsReturns(p) == pc[p] = "rg_commit" /\ pc'[p] = "idle"
\* The step in which p's resolve_gaps call leaves through its except block.
ResolveGapsRaises(p) == pc[p] = "rg_except" /\ pc'[p] = "idle"

\* C1: whatever the interleaving of the update_stock_atomic calls of concurrent
\* transactions, each committed item row holds its initial stock plus the sum of
\* the physical and of the declared deltas of the transactions that committed:
\* no update is lost.
C1_NoLostUpdate ==
    \A i \in Items :
        /\ itemC[i].stock_physical = applied[i].physical
        /\ itemC[i].stock_declared = applied[i].declared

\* C1 witness: a delivery that waited for the item's row lock until another
\* stock-changing call ended has committed, and so has that other call.
C1_Witness ==
    \E p, q \in Procs :
        /\ p # q
        /\ result[p].op = "deduct_stock" /\ result[p].status = "ok" /\ result[p].waited
        /\ result[q].op \in StockCalls /\ result[q].status = "ok"

\* C2 as stated: when the operation whose update_stock_atomic call was rejected
\* for negative stock ends, the item's two stock columns hold the values they
\* had just before that call.
C2_PreCallValuesRestored ==
    [][\A p \in Procs :
        (pc[p] = "req_rollback" /\ err[p] \in NegativeStockErrors /\ pc'[p] = "idle")
            => /\ itemC'[preCall[p].item].stock_physical = preCall[p].row.stock_physical
               /\ itemC'[preCall[p].item].stock_declared = preCall[p].row.stock_declared]_vars

\* C2 amended: an update that leaves stock_physical or stock_declared negative
\* makes its call fail with a validation error, and when the operation that
\* issued it ends, both stock columns of every item it updated hold the values
\* they had before the operation's first update of that item (every delta of the
\* operation is undone, those of its earlier calls included).
C2_OperationValuesRestored ==
    [][\A p \in Procs :
        /\ (\E i \in DOMAIN itemW'[p] :
                itemW'[p][i].stock_physical < 0 \/ itemW'[p][i].stock_declared < 0)
            => (Failing(p)' /\ err'[p].type = "ValidationError")
        /\ (Failing(p) /\ pc'[p] = "idle")
            => /\ result'[p].status = "error"
               /\ \A i \in DOMAIN undo[p] :
                    /\ itemC'[i].stock_physical = undo[p][i].stock_physical
                    /\ itemC'[i].stock_declared = undo[p][i].stock_declared]_vars

\* C2 witness: a delivery was rejected because stock_declared would go negative,
\* while the same statement also changed stock_physical, which stays non-negative.
C2_Witness ==
    \E p \in Procs :
        /\ pc[p] = "req_rollback"
        /\ err[p] = ValidationError(MsgNegativeDeclared)
        /\ preCall[p].item \in DOMAIN itemW[p]
        /\ itemW[p][preCall[p].item].stock_physical >= 0
        /\ itemW[p][preCall[p].item].stock_physical # preCall[p].row.stock_physical

\* C3: in every committed state reached by interleaved receipts, deliveries and
\* gap resolutions, every item has stock_physical >= 0 and stock_declared >= 0.
C3_CommittedStockNonNegative ==
    \A i \in Items : itemC[i].stock_physical >= 0 /\ itemC[i].stock_declared >= 0

\* C3 witness: one delivery committed, another was rejected for negative stock,
\* and an item's committed declared stock stands at zero.
C3_Witness ==
    \E p, q \in Procs :
        /\ p # q
        /\ result[p].op = "deduct_stock" /\ result[p].status = "ok"
        /\ result[q].op = "deduct_stock" /\ result[q].error \in NegativeStockErrors
        /\ \E i \in Items : itemC[i].stock_declared = 0

\* C4 as stated: the statement that records a price-history entry during
\* update_cost_atomic writes none of stock_physical, stock_declared, cost_landed
\* and cost_declared.
C4_HistoryWritesNoLedgerColumn ==
    \A p \in Procs : stmt[p].kind = "save" => stmt[p].columns \cap LedgerColumns = {}

\* C5: when a resolve_gaps call returns, a gap it took a positive quantity from
\* has every older gap of the key that was open fully resolved, the only gap it
\* touched that may be Partial is the youngest it touched, and the others it
\* touched are Resolved.
C5_OldestFirst ==
    [][\A p \in Procs :
        ResolveGapsReturns(p) =>
            LET v == result'[p].value
                open == {m \in DOMAIN gapC : /\ gapC[m].general_name = v.customs_name
                                             /\ gapC[m].status \in OpenStatuses}
            IN /\ \A n \in DOMAIN v.taken :
                    /\ v.taken[n] > 0
                    /\ gapC'[n].resolved_qty = gapC[n].resolved_qty + v.taken[n]
                    /\ \A m \in open : m < n => gapC'[m].resolved_qty = gapC'[m].gap_qty
                    /\ gapC'[n].status = IF gapC'[n].resolved_qty = gapC'[n].gap_qty
                                         THEN "Resolved" ELSE "Partial"
                    /\ gapC'[n].status = "Partial" => \A m \in DOMAIN v.taken : m <= n
               /\ v.resolved_count = Cardinality(DOMAIN v.taken)]_vars

\* C5 witness: two gaps of MaxQty under one key and a declaration of MaxQty + 1
\* ended Resolved (+MaxQty) and Partial (+1), remaining_qty 0, resolved_count 2.
C5_Witness ==
    \E p \in Procs :
        /\ result[p].op = "resolve_gaps" /\ result[p].status = "ok"
        /\ result[p].value.declaration_qty = MaxQty + 1
        /\ result[p].value.taken = (1 :> MaxQty) @@ (2 :> 1)
        /\ result[p].value.gaps_affected = <<1, 2>>
        /\ result[p].value.remaining_qty = 0
        /\ result[p].value.resolved_count = 2
        /\ gapC[1].status = "Resolved" /\ gapC[2].status = "Partial"

\* C6: with T the open quantity of the key's Pending/Partial gaps at the locking
\* read, a positive declaration returns remaining_qty = max(0, declaration_qty - T);
\* when declaration_qty exceeds T every gap read ends Resolved and the call
\* returns normally; with no open gap remaining_qty = declaration_qty and the
\* call writes no gap and no item.
C6_RemainingQty ==
    [][\A p \in Procs :
        /\ (pc[p] = "rg_select" /\ pc'[p] \in {"rg_gap", "rg_commit"})
            => loc'[p].open_total =
                 OpenTotal(gapC, {m \in DOMAIN gapC :
                                    /\ gapC[m].general_name = op[p].customs_name
                                    /\ gapC[m].status \in OpenStatuses})
        /\ ResolveGapsReturns(p) =>
            LET v == result'[p].value
            IN /\ result'[p].status = "ok"
               /\ v.remaining_qty = Max(0, v.declaration_qty - v.open_total)
               /\ v.declaration_qty > v.open_total =>
                    \A k \in 1..Len(v.locked) : gapC'[v.locked[k]].status = "Resolved"
               /\ v.locked = <<>> =>
                    /\ v.remaining_qty = v.declaration_qty
                    /\ gapW[p] = <<>> /\ itemW[p] = <<>>
                    /\ gapC' = gapC /\ itemC' = itemC]_vars

\* C6 witness: one declaration exceeded the open quantity it found and reported
\* the excess, and another found no open gap and reported its whole quantity.
C6_Witness ==
    \E p, q \in Procs :
        /\ p # q
        /\ result[p].op = "resolve_gaps" /\ result[p].status = "ok"
        /\ result[p].value.open_total > 0
        /\ result[p].value.declaration_qty > result[p].value.open_total
        /\ result[p].value.remaining_qty =
                result[p].value.declaration_qty - result[p].value.open_total
        /\ result[q].op = "resolve_gaps" /\ result[q].status = "ok"
        /\ result[q].value.declaration_qty > 0
        /\ result[q].value.locked = <<>>
        /\ result[q].value.remaining_qty = result[q].value.declaration_qty

\* C7: concurrent resolve_gaps calls on one key run one after the other: while a
\* call is between its locking read and its commit, the committed gaps it read
\* are still as it read them, and every committed gap's resolved_qty is exactly
\* the sum of what committed declarations took from it and never above gap_qty.
C7_SerializedByRowLocks ==
    /\ \A n \in DOMAIN gapC :
        /\ gapC[n].resolved_qty = Consumed(n)
        /\ gapC[n].resolved_qty <= gapC[n].gap_qty
    /\ \A p \in Procs :
        pc[p] \in {"rg_gap", "rg_item", "rg_commit"} =>
            \A k \in 1..Len(loc[p].gaps) :
                PendingGapRecord(gapC[loc[p].gaps[k].name]) = loc[p].gaps[k]

\* C7 witness: two declarations on the same key both returned having consumed
\* gap quantity, one of them after waiting for the other's row locks.
C7_Witness ==
    \E p, q \in Procs :
        /\ p # q
        /\ result[p].op = "resolve_gaps" /\ result[p].status = "ok"
        /\ result[q].op = "resolve_gaps" /\ result[q].status = "ok"
        /\ result[p].value.customs_name = result[q].value.customs_name
        /\ result[p].value.resolved_count > 0
        /\ result[q].value.resolved_count > 0
        /\ result[q].waited

\* C8: every gap, committed or being written, has 0 <= resolved_qty <= gap_qty;
\* no step changes a committed gap's gap_qty, lowers its resolved_qty or removes it.
C8_GapQuantities ==
    [][/\ \A n \in DOMAIN gapC : 0 <= gapC[n].resolved_qty /\ gapC[n].resolved_qty <= gapC[n].gap_qty
       /\ \A n \in DOMAIN gapC' :
            0 <= gapC'[n].resolved_qty /\ gapC'[n].resolved_qty <= gapC'[n].gap_qty
       /\ \A p \in Procs : \A n \in DOMAIN gapW'[p] :
            0 <= gapW'[p][n].resolved_qty /\ gapW'[p][n].resolved_qty <= gapW'[p][n].gap_qty
       /\ DOMAIN gapC \subseteq DOMAIN gapC'
       /\ \A n \in DOMAIN gapC :
            /\ gapC'[n].gap_qty = gapC[n].gap_qty
            /\ gapC'[n].resolved_qty >= gapC[n].resolved_qty]_vars

\* C8 witness: a gap opened by a receipt has been partly or fully resolved by a
\* later declaration.
C8_Witness ==
    \E n \in DOMAIN gapC :
        /\ gapC[n].shipment \in Shipments
        /\ gapC[n].resolved_qty > 0

\* C9: when a resolve_gaps call leaves through its except block, the committed
\* gaps and items are what they were, and nothing the call wrote is left to be
\* committed.
C9_AllOrNothing ==
    [][\A p \in Procs :
        ResolveGapsRaises(p) =>
            /\ gapC' = gapC /\ itemC' = itemC
            /\ consumed' = consumed /\ applied' = applied
            /\ gapW'[p] = <<>> /\ itemW'[p] = <<>>
            /\ result'[p].status = "error"]_vars

\* C9 witness: a resolve_gaps call fails after it updated a gap and an item.
C9_Witness ==
    \E p \in Procs :
        /\ pc[p] = "rg_except"
        /\ \E n \in DOMAIN gapW[p] : gapW[p][n].resolved_qty > gapC[n].resolved_qty
        /\ \E i \in DOMAIN itemW[p] : itemW[p][i].stock_declared > itemC[i].stock_declared

\* C10: a resolve_gaps call that failed with a lock-wait-timeout or deadlock
\* message has rolled back and raised ValidationError "Please try again"; one
\* that failed otherwise has rolled back and raised the original exception.
C10_RetryableOrReraised ==
    [][\A p \in Procs :
        ResolveGapsRaises(p) =>
            /\ gapW'[p] = <<>> /\ itemW'[p] = <<>>
            /\ result'[p].value.raised = err[p]
            /\ result'[p].error =
                IF err[p].msg \in {MsgLockWait, MsgDeadlock}
                THEN ValidationError(MsgPleaseTryAgain)
                ELSE err[p]]_vars

\* C10 witness: a call that waited for a lock and was ended by a deadlock error
\* has raised "Please try again".
C10_Witness ==
    \E p \in Procs :
        /\ result[p].op = "resolve_gaps" /\ result[p].status = "error"
        /\ result[p].value.raised = OperationalError(MsgDeadlock)
        /\ result[p].error = ValidationError(MsgPleaseTryAgain)

\* The step in which p's call returns from its first statement, without ever
\* leaving the idle position: no other caller moves and no other result changes.
ReturnsAtOnce(p) ==
    /\ pc[p] = "idle" /\ pc' = pc /\ opsStarted' # opsStarted
    /\ \A q \in Procs \ {p} : result'[q] = result[q]

\* C11: a resolve_gaps call with declaration_qty <= 0 never enters the try block
\* (it begins no transaction and takes no gap or item lock), and the step in which
\* it returns changes no item row, no gap row and no receipt row, raises nothing
\* and returns resolved_count = 0, remaining_qty = 0 and no affected gap.
C11_NonPositiveDeclarationIsNoOp ==
    [][\A p \in Procs :
        /\ (op'[p].name = "resolve_gaps" => op'[p].declaration_qty > 0)
        /\ (/\ ReturnsAtOnce(p)
            /\ result'[p].op = "resolve_gaps" /\ result'[p].status = "ok"
            /\ result'[p].value.declaration_qty <= 0)
           => /\ result'[p].error = NoErr
              /\ result'[p].value.resolved_count = 0
              /\ result'[p].value.remaining_qty = 0
              /\ result'[p].value.gaps_affected = <<>>
              /\ result'[p].value.locked = <<>>
              /\ ~result'[p].waited
              /\ UNCHANGED <<itemVars, gapVars, rcptVars>>]_vars

\* C11 witness: a declaration of 0 on a key with an open gap has returned
\* while the other caller is consuming gaps under its locks.
C11_Witness ==
    \E p \in Procs, q \in Procs :
        /\ p # q
        /\ result[p].op = "resolve_gaps" /\ result[p].status = "ok"
        /\ result[p].value.declaration_qty = 0
        /\ \E n \in DOMAIN gapC :
              /\ gapC[n].general_name = result[p].value.customs_name
              /\ gapC[n].status \in OpenStatuses
        /\ pc[q] = "rg_gap" /\ DOMAIN gapW[q] # {}

\* p's next statement needs a row lock that q's open transaction holds.
WaitsOn(p, q) ==
    \/ /\ pc[p] = "rg_select"
       /\ \E n \in DOMAIN gapW[q] : gapW[q][n].general_name = op[p].customs_name
    \/ /\ pc[p] = "rg_gap"
       /\ loc[p].gaps[idx[p]].name \in DOMAIN gapW[q]
    \/ /\ pc[p] = "rg_item"
       /\ Head(loc[p].items) \in DOMAIN itemW[q]

\* C12: a resolve_gaps call holds no item row while it is still reading or
\* consuming gaps, the items it has locked all precede in name order the items
\* it has yet to lock, and two resolve_gaps calls never wait for each other.
C12_NoCircularWait ==
    \A p \in Procs :
        op[p].name = "resolve_gaps" =>
            /\ pc[p] \in {"rg_select", "rg_gap"} => DOMAIN itemW[p] = {}
            /\ pc[p] = "rg_item" =>
                    \A i \in DOMAIN itemW[p] :
                        \A k \in 1..Len(loc[p].items) :
                            ItemRank(i) < ItemRank(loc[p].items[k])
            /\ \A q \in Procs \ {p} :
                    op[q].name = "resolve_gaps" => ~(WaitsOn(p, q) /\ WaitsOn(q, p))

\* C12 witness: two resolve_gaps calls on different keys whose gaps were
\* consumed in opposite item orders; one holds the first item and the other
\* waits for it, having nothing locked that the holder still needs.
C12_Witness ==
    \E p \in Procs, q \in Procs :
        /\ p # q
        /\ op[p].name = "resolve_gaps" /\ op[q].name = "resolve_gaps"
        /\ loc[p].keys = <<"ITEM-B", "ITEM-A">> /\ loc[q].keys = <<"ITEM-A", "ITEM-B">>
        /\ pc[p] = "rg_item" /\ DOMAIN itemW[p] = {"ITEM-A"}
        /\ pc[q] = "rg_item" /\ WaitsOn(q, p) /\ ~WaitsOn(p, q)

\* C13: a process_receipt call never goes past its guard for a shipment whose
\* committed receipt_processed flag is set; a process_receipt call that returns
\* from the guard returns success with already_existed = TRUE, and the step
\* changes no item row, no gap, no received_qty and no shipment flag.
C13_ProcessedShipmentIsNoOp ==
    [][\A p \in Procs :
        /\ (pc[p] = "idle" /\ op'[p].name = "process_receipt")
                => ~shipC[op'[p].shipment_id]
        /\ (/\ ReturnsAtOnce(p)
            /\ result'[p].op = "process_receipt"
            /\ result'[p] # result[p])
                => /\ result'[p].status = "ok"
                   /\ result'[p].value = build_already_processed_result
        /\ (/\ ReturnsAtOnce(p)
            /\ result'[p].op = "process_receipt" /\ result'[p].status = "ok"
            /\ result'[p].value = build_already_processed_result)
                => /\ result'[p].value.success /\ result'[p].value.already_existed
                   /\ shipC[result'[p].shipment_id]
                   /\ UNCHANGED <<itemVars, gapVars, rcptVars>>]_vars

\* C13 witness: the informal shipment was received and committed (stock, gaps
\* and received_qty changed), and a later call on it returned already_existed.
C13_Witness ==
    \E p \in Procs :
        /\ shipC["SHP-1"] /\ ~shipC["SHP-2"]
        /\ poC[<<"PO-1", "ITEM-A">>] = MaxQty
        /\ pc[p] = "idle" /\ opsStarted = MaxOps
        /\ result[p].op = "process_receipt" /\ result[p].status = "ok"
        /\ result[p].value = build_already_processed_result

RECURSIVE LineQty(_, _, _)
\* Quantity the lines 1..n of shipment s bring to Purchase Order line l.
LineQty(s, l, n) ==
    IF n = 0 THEN 0
    ELSE LineQty(s, l, n - 1)
         + (LET row == ShipmentDoc(s).items[n]
            IN IF <<row.po, row.item>> = l THEN row.quantity ELSE 0)

\* The shipments that pass the validation of process_receipt.
Receivable == {s \in Shipments : validate_shipment_for_receipt(ShipmentDoc(s)) = NoErr}

RECURSIVE SumLineQty(_, _)
SumLineQty(S, l) ==
    IF S = {} THEN 0
    ELSE LET s == CHOOSE x \in S : TRUE
         IN LineQty(s, l, Len(ShipmentDoc(s).items)) + SumLineQty(S \ {s}, l)

\* C14: whatever the interleaving of process_receipt calls, the committed
\* tables show every shipment applied at most once: a Purchase Order line has
\* received at most what the receivable shipments bring to it once, and a
\* shipment has opened at most one gap per line.
C14_ShipmentAppliedAtMostOnce ==
    /\ \A l \in POLines : poC[l] <= SumLineQty(Receivable, l)
    /\ \A s \in Shipments :
            Cardinality({n \in DOMAIN gapC : gapC[n].shipment = s})
                <= Len(ShipmentDoc(s).items)

RECURSIVE ItemQty(_, _, _)
\* Quantity the lines 1..n of shipment s bring to item i.
ItemQty(s, i, n) ==
    IF n = 0 THEN 0
    ELSE ItemQty(s, i, n - 1)
         + (IF ShipmentDoc(s).items[n].item = i THEN ShipmentDoc(s).items[n].quantity ELSE 0)

\* The step in which the request of p's process_receipt call commits.
ReceiptCommits(p) ==
    pc[p] = "req_commit" /\ op[p].name = "process_receipt" /\ pc'[p] = "idle"

\* C15: the commit of a process_receipt call adds to the committed tables, for
\* every line of quantity q: q to stock_physical and, if the shipment is formal,
\* q to stock_declared (nothing to it if informal); no gap if formal, and if
\* informal exactly one Pending gap of gap_qty q, resolved_qty 0 and the item's
\* customs name; q to the PO line's received_qty; and it sets receipt_processed.
C15_ReceiptEffect ==
    [][\A p \in Procs :
        ReceiptCommits(p) =>
            LET s == op[p].shipment_id
                sh == ShipmentDoc(s)
                len == Len(sh.items)
                new == DOMAIN gapC' \ DOMAIN gapC
            IN /\ \A i \in Items :
                    /\ itemC'[i].stock_physical
                            = itemC[i].stock_physical + ItemQty(s, i, len)
                    /\ itemC'[i].stock_declared
                            = itemC[i].stock_declared
                              + (IF sh.is_formal THEN ItemQty(s, i, len) ELSE 0)
               /\ \A n \in DOMAIN gapC : gapC'[n] = gapC[n]
               /\ sh.is_formal => new = {}
               /\ ~sh.is_formal =>
                    /\ Cardinality(new) = len
                    /\ \A k \in 1..len :
                        \E n \in new :
                            /\ gapC'[n].product = sh.items[k].item
                            /\ gapC'[n].gap_qty = sh.items[k].quantity
                            /\ gapC'[n].resolved_qty = 0
                            /\ gapC'[n].status = "Pending"
                            /\ gapC'[n].general_name = ItemCustomsName(sh.items[k].item)
                            /\ gapC'[n].shipment = s /\ gapC'[n].po = sh.items[k].po
               /\ \A l \in POLines : poC'[l] = poC[l] + LineQty(s, l, len)
               /\ shipC' = [shipC EXCEPT ![s] = TRUE]
               /\ result'[p].status = "ok"
               /\ Len(result'[p].value.items) = len]_vars

\* C15 witness: an informal and a formal receipt have both committed, the
\* informal one after waiting for a row the formal one held.
C15_Witness ==
    \E p \in Procs, q \in Procs :
        /\ p # q /\ pc[p] = "idle" /\ pc[q] = "idle"
        /\ shipC["SHP-1"] /\ shipC["SHP-2"]
        /\ result[p].op = "process_receipt" /\ result[p].status = "ok"
        /\ result[q].op = "process_receipt" /\ result[q].status = "ok"
        /\ result[p].waited
        /\ poC[<<"PO-1", "ITEM-B">>] = 2
        /\ Cardinality({n \in DOMAIN gapC : gapC[n].shipment = "SHP-1"}) = 2

\* The step in which p's process_receipt call, past validation, raises to its
\* caller and the request's transaction is rolled back.
ReceiptRaises(p) ==
    /\ pc[p] = "req_rollback" /\ pc'[p] = "idle"
    /\ op[p].name = "process_receipt"
    /\ validate_shipment_for_receipt(ShipmentDoc(op[p].shipment_id)) = NoErr

\* C16: when a process_receipt call fails in its try block, the committed item
\* rows, gaps, received quantities and receipt_processed flags are left as they
\* were, none of the call's writes stays pending, and the caller gets the
\* generic "receipt failed" validation error with its reference, whatever the
\* exception was.
C16_FailedReceiptLeavesNothing ==
    [][\A p \in Procs :
        ReceiptRaises(p) =>
            /\ UNCHANGED <<itemC, gapC, poC, shipC>>
            /\ itemW'[p] = <<>> /\ gapW'[p] = <<>>
            /\ poW'[p] = <<>> /\ shipW'[p] = <<>>
            /\ result'[p].status = "error"
            /\ result'[p].error = ValidationError(MsgReceiptFailed)
            /\ contains(result'[p].error.msg, <<"Ref">>)]_vars

\* C16 witness: a receipt that had inserted a gap failed and was rolled back;
\* the gap is not in the table, no write is pending and the flag is unset.
C16_Witness ==
    \E p \in Procs :
        /\ pc[p] = "idle"
        /\ result[p].op = "process_receipt" /\ result[p].status = "error"
        /\ result[p].error = ValidationError(MsgReceiptFailed)
        /\ nextGap > 1 /\ (nextGap - 1) \notin DOMAIN gapC
        /\ \A q \in Procs : gapW[q] = <<>> /\ itemW[q] = <<>> /\ poW[q] = <<>>
        /\ \A s \in Shipments : ~shipC[s]

\* A shipment with one of the defects that bar it from receipt.
Defective(sh) ==
    \/ sh.docstatus # 1
    \/ sh.items = <<>>
    \/ \E k \in 1..Len(sh.items) :
            \/ sh.items[k].quantity <= 0
            \/ sh.items[k].po = ""
            \/ ~POData(sh.items[k].po).exists
            \/ POData(sh.items[k].po).status \notin {"Ordered", "Confirmed", "Shipped", "Received"}
            \/ ~POData(sh.items[k].po).invoice_field_exists
            \/ POData(sh.items[k].po).invoice_id = ""
    \/ sh.is_formal /\ sh.customs_exchange_rate <= 0
    \/ ~sh.is_formal /\ \E k \in 1..Len(sh.items) : ItemCustomsName(sh.items[k].item) = ""

C18_OverReceiptFailureKeepsReceipt ==
    [][\A p \in Procs :
        /\ (pc[p] = "pr_over" /\ pc'[p] # "pr_over") => pc'[p] = "req_commit"
        /\ ReceiptCommits(p) =>
            LET s == op[p].shipment_id
                sh == ShipmentDoc(s)
                v == result'[p].value
            IN /\ result'[p].status = "ok" /\ result'[p].error = NoErr
               /\ v.items = [k \in 1..Len(sh.items) |->
                        [item |-> sh.items[k].item, qty |-> sh.items[k].quantity,
                         po |-> sh.items[k].po]]
               /\ DOMAIN v.over_receipts
                    = {l[1] : l \in {m \in POLines : poC'[m] > POQuantity(m)
                                                     /\ LineQty(s, m, Len(sh.items)) > 0}}
               /\ v.success = (\A po \in DOMAIN v.over_receipts : v.over_receipts[po].success)
               /\ shipC'[s]
               /\ \A l \in POLines : poC'[l] = poC[l] + LineQty(s, l, Len(sh.items))
               /\ \A i \in Items :
                    itemC'[i].stock_physical
                        = itemC[i].stock_physical + ItemQty(s, i, Len(sh.items))]_vars

\* C18 witness: the second receipt on a PO line over-received it, the handler
\* failed, and the call returned success = FALSE with the receipt committed.
C18_Witness ==
    \E p \in Procs :
        /\ pc[p] = "idle"
        /\ result[p].op = "process_receipt" /\ result[p].status = "ok"
        /\ result[p].value # build_already_processed_result
        /\ ~result[p].value.success
        /\ Len(result[p].value.items) = 1
        /\ ~result[p].value.over_receipts["PO-1"].success
        /\ shipC["SHP-1"] /\ shipC["SHP-2"]
        /\ poC[<<"PO-1", "ITEM-B">>] = 2

RECURSIVE ActivePhysical(_, _)
\* Sum of reserved_physical over the Active reservations of item named in S.
ActivePhysical(item, S) ==
    IF S = {} THEN 0
    ELSE LET n == CHOOSE x \in S : TRUE
         IN (IF resv[n].item = item /\ resv[n].status = "Active"
             THEN resv[n].reserved_physical ELSE 0)
            + ActivePhysical(item, S \ {n})

\* Physical stock of item not held by an Active reservation, in the committed tables.
AvailablePhysical(item) == itemC[item].stock_physical - ActivePhysical(item, DOMAIN resv)

\* C19: a reserve_stock call with qty <= 0 is rejected at its guard, and one
\* whose qty exceeds stock_physical minus the Active reserved_physical of the
\* item, as committed when it reads them, is rejected at that read; a rejected
\* call raises a validation error and the reservation table is as it was.
C19_ReserveRejectedWithoutWrite ==
    [][\A p \in Procs :
        /\ (/\ pc[p] = "idle" /\ op'[p].name = "reserve_stock" /\ op'[p].qty <= 0)
                => /\ pc'[p] = "req_rollback"
                   /\ err'[p].type = "ValidationError"
                   /\ resv' = resv
        /\ (/\ pc[p] = "rs_read" /\ pc'[p] # "rs_read"
            /\ op[p].qty > AvailablePhysical(op[p].item))
                => /\ pc'[p] = "req_rollback"
                   /\ err'[p].type = "ValidationError"
                   /\ resv' = resv
        /\ (/\ pc[p] = "req_rollback" /\ pc'[p] = "idle"
            /\ op[p].name = "reserve_stock")
                => /\ resv' = resv /\ itemC' = itemC
                   /\ result'[p].status = "error"
                   /\ result'[p].error.type = "ValidationError"]_vars

\* C19 witness: a request no larger than the item's physical stock is being
\* rejected because Active reservations hold part of that stock, one of them
\* made by the other caller.
C19_Witness ==
    \E p \in Procs :
        /\ pc[p] = "req_rollback" /\ op[p].name = "reserve_stock"
        /\ err[p] = ValidationError(MsgInsufficientStock)
        /\ op[p].qty <= itemC[op[p].item].stock_physical
        /\ \E n \in DOMAIN resv :
              /\ resv[n].item = op[p].item /\ resv[n].status = "Active"
              /\ resv[n].sales_order # "SO-0"

\* C20: release_reservation goes on to its write only for a reservation it read
\* as Active, and the write sets that reservation's status to Released and
\* nothing else, returning 'released'; for a Released or Cancelled one it
\* returns 'already_inactive' at once and the table is unchanged; and no step
\* takes a reservation that is not Active back to Active.
C20_ReleaseIdempotent ==
    [][/\ \A p \in Procs :
            /\ (pc[p] = "idle" /\ op'[p].name = "release_reservation")
                    => /\ resv' = resv
                       /\ op'[p].reservation \in DOMAIN resv
                            => /\ resv[op'[p].reservation].status = "Active"
                               /\ pc'[p] = "rl_set"
            /\ (/\ ReturnsAtOnce(p)
                /\ result'[p].op = "release_reservation"
                /\ result'[p] # result[p])
                    => /\ result'[p].status = "ok"
                       /\ result'[p].value.status = "already_inactive"
                       /\ resv[result'[p].value.reservation].status
                                \in {"Released", "Cancelled"}
                       /\ resv' = resv
            /\ (pc[p] = "rl_set" /\ pc'[p] = "idle")
                    => /\ resv' = [resv EXCEPT ![op[p].reservation].status = "Released"]
                       /\ result'[p].status = "ok"
                       /\ result'[p].value.status = "released"
                       /\ result'[p].value.reservation = op[p].reservation
       /\ (pc' = pc /\ opsStarted' # opsStarted) => resv' = resv
       /\ \A n \in DOMAIN resv :
            /\ n \in DOMAIN resv'
            /\ resv[n].status # "Active" => resv'[n].status # "Active"]_vars

\* C20 witness: one caller released an Active reservation and the other, asking
\* for the same reservation afterwards, got 'already_inactive'.
C20_Witness ==
    \E p \in Procs, q \in Procs :
        /\ p # q /\ pc[p] = "idle" /\ pc[q] = "idle"
        /\ result[p].op = "release_reservation" /\ result[p].status = "ok"
        /\ result[p].value.status = "released"
        /\ result[q].op = "release_reservation" /\ result[q].status = "ok"
        /\ result[q].value.status = "already_inactive"
        /\ result[q].value.reservation = result[p].value.reservation
        /\ resv[result[p].value.reservation].status = "Released"

RECURSIVE ActiveDeclared(_, _)
\* Sum of reserved_declared over the Active reservations of item named in S.
ActiveDeclared(item, S) ==
    IF S = {} THEN 0
    ELSE LET n == CHOOSE x \in S : TRUE
         IN (IF resv[n].item = item /\ resv[n].status = "Active"
             THEN resv[n].reserved_declared ELSE 0)
            + ActiveDeclared(item, S \ {n})

\* Declared stock of item not held by an Active reservation, in the committed tables.
AvailableDeclared(item) == itemC[item].stock_declared - ActiveDeclared(item, DOMAIN resv)

RECURSIVE TakenFrom(_, _, _, _)
\* What the committed gaps named in S that belong to product gained in
\* resolved_qty between the gap tables before and after.
TakenFrom(before, after, product, S) ==
    IF S = {} THEN 0
    ELSE LET n == CHOOSE x \in S : TRUE
         IN (IF before[n].product = product
             THEN after[n].resolved_qty - before[n].resolved_qty ELSE 0)
            + TakenFrom(before, after, product, S \ {n})

RECURSIVE DeclaredIncrease(_, _, _)
\* Sum over the items in S of the rise of stock_declared from before to after.
DeclaredIncrease(before, after, S) ==
    IF S = {} THEN 0
    ELSE LET i == CHOOSE x \in S : TRUE
         IN (after[i].stock_declared - before[i].stock_declared)
            + DeclaredIncrease(before, after, S \ {i})

\* C29: the commit of a successful resolve_gaps raises each item's committed
\* stock_declared by exactly what the call added to the resolved_qty of that
\* item's gaps, the rises sum to declaration_qty - remaining_qty, and no
\* stock_physical changes; and the call writes each item at most once, with a
\* statement that leaves stock_physical as it was.
C29_DeclaredStockFollowsConsumption ==
    [][\A p \in Procs :
        /\ ResolveGapsReturns(p) =>
            /\ result'[p].status = "ok"
            /\ \A i \in Items :
                /\ itemC'[i].stock_declared - itemC[i].stock_declared
                        = TakenFrom(gapC, gapC', i, DOMAIN gapC)
                /\ itemC'[i].stock_physical = itemC[i].stock_physical
            /\ DeclaredIncrease(itemC, itemC', Items)
                    = result'[p].value.declaration_qty - result'[p].value.remaining_qty
        /\ (pc[p] = "rg_item" /\ itemW'[p] # itemW[p]) =>
            \E i \in Items :
                /\ i \notin DOMAIN itemW[p]
                /\ DOMAIN itemW'[p] = DOMAIN itemW[p] \cup {i}
                /\ \A j \in DOMAIN itemW[p] : itemW'[p][j] = itemW[p][j]
                /\ itemW'[p][i].stock_physical = itemC[i].stock_physical
                /\ itemW'[p][i].stock_declared > itemC[i].stock_declared]_vars

\* C29 witness: a declaration of MaxQty + 1 consumed MaxQty from a gap of ITEM-B
\* and 1 from a gap of ITEM-A, and after its commit the two items' stock_declared
\* stand higher by those quantities with stock_physical as before.
C29_Witness ==
    \E p \in Procs :
        /\ pc[p] = "idle" /\ result[p].op = "resolve_gaps" /\ result[p].status = "ok"
        /\ result[p].value.declaration_qty = MaxQty + 1
        /\ result[p].value.remaining_qty = 0
        /\ result[p].value.gaps_affected = <<1, 2>>
        /\ gapC[1].product = "ITEM-B" /\ gapC[2].product = "ITEM-A"
        /\ result[p].value.taken[1] = MaxQty /\ result[p].value.taken[2] = 1
        /\ itemC["ITEM-B"].stock_declared = InitStock + MaxQty
        /\ itemC["ITEM-A"].stock_declared = InitStock + 1
        /\ \A i \in Items : itemC[i].stock_physical = applied[i].physical

\* p's record_payment returns the name of its Payment Execution in this step.
RecordPaymentReturns(p) ==
    /\ op[p].name = "record_payment"
    /\ pc[p] \in {"rp_sync", "rp_set"}
    /\ pc'[p] = "pay_open"
    /\ result'[p].status = "ok"

\* The variance that p's transaction holds for the payment it is about to
\* return: on the Payment Execution and, if the installment exists, on its row.
StoredVariance(p, variance) ==
    /\ loc[p].exec_name \in DOMAIN payW[p].exec
    /\ payW[p].exec[loc[p].exec_name].fx_variance = variance
    /\ \A k \in {<<op[p].invoice, op[p].installment_no>>} :
          k \in PlanKeys(p, op[p].invoice) =>
              PlanRow(p, k).exchange_rate_variance = variance

\* C27 (as amended): a record_payment that returns has stored, on its new
\* Payment Execution and on the installment row, the signed variance
\* (exchange_rate - actual_exchange_rate) * amount_paid for every non-zero
\* actual_exchange_rate of the invoice, and (exchange_rate - 1.0) * amount_paid
\* when the invoice's actual_exchange_rate is zero or unset.
C27_FxVarianceWithDefaultRate ==
    [][\A p \in Procs : RecordPaymentReturns(p) =>
          LET rate == InvRow(p, op[p].invoice).actual_exchange_rate
          IN StoredVariance(p,
                (op[p].exchange_rate
                    - (IF rate # 0 THEN rate ELSE DefaultInvoiceRate))
                * op[p].amount_paid)]_vars

\* C27 as stated: the variance is taken against actual_exchange_rate whatever
\* its value.
C27_FxVarianceForEveryRate ==
    [][\A p \in Procs : RecordPaymentReturns(p) =>
          StoredVariance(p,
                (op[p].exchange_rate - InvRow(p, op[p].invoice).actual_exchange_rate)
                * op[p].amount_paid)]_vars

\* A payment of 1000 at 31.5 against an invoice at 30.0 has returned with a
\* variance of 1500.0 on the Payment Execution and on the installment row.
C27_Witness ==
    \E p \in Procs :
        /\ result[p].op = "record_payment" /\ result[p].status = "ok"
        /\ pc[p] = "pay_open"
        /\ invC["INV-1"].actual_exchange_rate = 300
        /\ result[p].value.name \in DOMAIN payW[p].exec
        /\ payW[p].exec[result[p].value.name].exchange_rate = 315
        /\ payW[p].exec[result[p].value.name].amount_paid = 1000
        /\ payW[p].exec[result[p].value.name].fx_variance = 15000
        /\ <<"INV-1", result[p].value.installment>> \in DOMAIN payW[p].plan
        /\ payW[p].plan[<<"INV-1", result[p].value.installment>>].exchange_rate_variance
              = 15000

\* The rows of p's open transaction that differ from what it held when its
\* running record_payment set the Phase 1 savepoint.
TouchedSincePhase1(p, table) ==
    {k \in DOMAIN payW'[p][table] \cup DOMAIN savepoints[p]["payment_phase1"][table] :
        \/ k \notin DOMAIN payW'[p][table]
        \/ k \notin DOMAIN savepoints[p]["payment_phase1"][table]
        \/ payW'[p][table][k] # savepoints[p]["payment_phase1"][table][k]}

\* A Payment Execution visible to p carries the tuple of p's running call.
TupleExists(p) ==
    \E n \in DOMAIN ExecRows(p) :
        /\ ExecRows(p)[n].invoice = op[p].invoice
        /\ ExecRows(p)[n].installment = op[p].installment_no
        /\ ExecRows(p)[n].remittance_reference = op[p].remittance_reference

\* C22: a failure inside record_payment's Phase 1 is re-raised to the caller
\* and leaves no new Payment Execution, no installment change and no invoice
\* change in the caller's transaction, while the rows the transaction had
\* written before the Phase 1 savepoint remain as they were; an insert whose
\* (invoice, installment, remittance_reference) matches an existing Payment
\* Execution is such a failure.
C22_Phase1FailureRollsBackPhase1Only ==
    [][\A p \in Procs :
          /\ (pc[p] = "rp_insert" /\ pc'[p] # "rp_insert" /\ TupleExists(p)) =>
                /\ pc'[p] = "rp_except"
                /\ err'[p].type \in {"ValidationError", "OperationalError"}
                /\ payW'[p] = payW[p]
          /\ (pc[p] = "rp_except" /\ pc'[p] # "rp_except") =>
                /\ result'[p].op = "record_payment"
                /\ result'[p].status = "error"
                /\ result'[p].error = err[p]
                /\ TouchedSincePhase1(p, "exec") = {}
                /\ TouchedSincePhase1(p, "plan") = {}
                /\ TouchedSincePhase1(p, "inv") = {}
                /\ invC' = invC /\ planC' = planC /\ execC' = execC]_vars

\* A request paid installment 2 and then repeated the same payment: the second
\* call raised the duplicate error, and the request's transaction still holds
\* the first call's Payment Execution, paid installment and invoice status.
C22_Witness ==
    \E p \in Procs :
        /\ pc[p] = "pay_open"
        /\ result[p].op = "record_payment" /\ result[p].status = "error"
        /\ result[p].error = ValidationError(MsgDuplicatePayment)
        /\ Cardinality(DOMAIN payW[p].exec) = 1
        /\ <<"INV-1", 2>> \in DOMAIN payW[p].plan
        /\ payW[p].plan[<<"INV-1", 2>>].status = "Paid"
        /\ "INV-1" \in DOMAIN payW[p].inv
        /\ nextExec = Cardinality(DOMAIN execC) + 2

\* C23: no two Payment Execution records share the same idempotency_key
\* invoice|installment|remittance_reference, in the committed table or in any
\* open transaction.
C23_IdempotencyKeyUnique ==
    /\ \A m, n \in DOMAIN execC :
          m # n => execC[m].idempotency_key # execC[n].idempotency_key
    /\ \A p \in Procs : \A m \in DOMAIN payW[p].exec : \A n \in DOMAIN execC :
          payW[p].exec[m].idempotency_key # execC[n].idempotency_key

\* C24: a failure of the revaluation step of trigger_revaluation is logged and
\* not raised, and undoes only what was written after the Phase 2 savepoint:
\* the Payment Execution, the paid installment and the invoice status that the
\* preceding record_payment of the request wrote are as that call left them.
C24_Phase2FailureKeepsPhase1 ==
    [][\A p \in Procs :
          (pc[p] = "tr_except" /\ pc'[p] # "tr_except") =>
              /\ result'[p].op = "trigger_revaluation"
              /\ result'[p].status = "ok"
              /\ error_log' = Append(error_log,
                    <<"Revaluation failed for", op[p].invoice, op[p].payment_execution>>)
              /\ payW'[p] = savepoints[p]["payment_phase2"]
              /\ invC' = invC /\ planC' = planC /\ execC' = execC
              /\ \A n \in {op[p].payment_execution} :
                    /\ n \in DOMAIN payW'[p].exec
                    /\ \A k \in {<<op[p].invoice, payW[p].exec[n].installment>>} :
                          k \in DOMAIN planC =>
                              /\ payW'[p].plan[k].status = "Paid"
                              /\ payW'[p].plan[k].payment_reference = n
                              /\ payW'[p].inv[op[p].invoice].status \in {"Paid", "Partial"}]_vars

\* A revaluation that had already written failed: the failure was logged, the
\* call returned, its write was undone, and the request still holds the
\* Payment Execution, the paid installment and the invoice status of Phase 1.
C24_Witness ==
    \E p \in Procs :
        /\ pc[p] = "pay_open"
        /\ result[p].op = "trigger_revaluation" /\ result[p].status = "ok"
        /\ "undone" \in DOMAIN result[p].value /\ result[p].value.undone
        /\ Len(error_log) = 1
        /\ DOMAIN payW[p].exec # {}
        /\ \E k \in DOMAIN payW[p].plan : payW[p].plan[k].status = "Paid"
        /\ "INV-1" \in DOMAIN payW[p].inv
        /\ ~payW[p].inv["INV-1"].revalued

\* The invoice that p's running payment call is about.
CallInvoice(p) ==
    IF op[p].name = "record_payment" THEN op[p].invoice ELSE op[p].execution.invoice

\* p's record_payment or apply_payment_execution returns normally in this step.
PaymentCallReturns(p) ==
    /\ pc[p] \in {"rp_sync", "rp_set", "ap_save"}
    /\ pc'[p] = "pay_open"
    /\ result'[p].status = "ok"

\* In p's transaction the status of invoice v follows from its installments:
\* Paid when all are Paid, Partial when some but not all are.
StatusDerived(p, v) ==
    /\ (PlanKeys(p, v) # {} /\ \A k \in PlanKeys(p, v) : PlanRow(p, k).status = "Paid")
          => InvRow(p, v).status = "Paid"
    /\ (/\ \E k \in PlanKeys(p, v) : PlanRow(p, k).status = "Paid"
        /\ \E k \in PlanKeys(p, v) : PlanRow(p, k).status # "Paid")
          => InvRow(p, v).status = "Partial"

\* C25: when a record_payment or an apply_payment_execution returns normally,
\* the invoice's status is Paid if all of its installments are Paid and
\* Partial if at least one but not all are, whatever the order of payment.
C25_StatusDerivedAfterPayment ==
    [][\A p \in Procs : PaymentCallReturns(p) =>
          \A v \in {CallInvoice(p)} : StatusDerived(p, v)']_vars

\* The status changes an installment may make.
InstallmentMoves ==
    {<<"Pending", "Paid">>, <<"Pending", "Overdue">>, <<"Overdue", "Paid">>}

\* C28: under any sequence of record_payment, apply_payment_execution and
\* mark_overdue_installments, the stored status of an installment changes only
\* from Pending to Paid, from Pending to Overdue or from Overdue to Paid; a
\* Paid installment never becomes Pending or Overdue again.
C28_InstallmentStatusMoves ==
    [][\A k \in DOMAIN planC \cap DOMAIN planC' :
          \/ planC'[k].status = planC[k].status
          \/ <<planC[k].status, planC'[k].status>> \in InstallmentMoves]_vars

\* A call has started in this step and p's latest result is that of a
\* generate_payment_schedule, called directly or from a hook of Invoice.save.
ScheduleGenerated(p) ==
    /\ opsStarted' # opsStarted
    /\ pc'[p] = "pay_open"
    /\ \/ result'[p].op = "generate_payment_schedule"
       \/ result'[p].op = "Invoice.save" /\ result'[p].value.generated

\* C26: generate_payment_schedule on an invoice that already has a payment
\* schedule changes nothing: every installment row the invoice had is still
\* there with the same status, paid_amount, paid_date and payment_reference.
C26_ExistingScheduleUntouched ==
    [][\A p \in Procs : ScheduleGenerated(p) =>
          \A v \in DOMAIN invC : \A k \in PlanKeys(p, v) :
              /\ k \in PlanKeys(p, v)'
              /\ PlanRow(p, k)' = PlanRow(p, k)]_vars

\* C31: get_available_stock(item) returns available_physical = stock_physical
\* minus the reserved_physical of the item's Active reservations and
\* available_declared = stock_declared minus their reserved_declared (Released
\* and Cancelled reservations and those of other items do not count), and the
\* call writes nothing.
C31_AvailableStockIsTotalMinusActive ==
    [][\A p \in Procs : (pc[p] = "rs_read" /\ pc'[p] # "rs_read") =>
          /\ loc'[p].stock.physical_total = itemC[op[p].item].stock_physical
          /\ loc'[p].stock.declared_total = itemC[op[p].item].stock_declared
          /\ loc'[p].stock.reserved_physical = ActivePhysical(op[p].item, DOMAIN resv)
          /\ loc'[p].stock.reserved_declared = ActiveDeclared(op[p].item, DOMAIN resv)
          /\ loc'[p].stock.available_physical = AvailablePhysical(op[p].item)
          /\ loc'[p].stock.available_declared = AvailableDeclared(op[p].item)
          /\ itemC' = itemC /\ itemW' = itemW /\ resv' = resv]_vars

\* The availability of ITEM-A was read from a table that holds an Active and a
\* Released reservation of it and a Cancelled one of ITEM-B: one unit is held.
C31_Witness ==
    \E p \in Procs :
        /\ pc[p] = "rs_insert" /\ op[p].item = "ITEM-A"
        /\ Len(resv) = 3
        /\ resv[1].status = "Active" /\ resv[2].status = "Released"
        /\ loc[p].stock.reserved_physical = 1
        /\ loc[p].stock.reserved_declared = 1
        /\ loc[p].stock.available_physical = itemC["ITEM-A"].stock_physical - 1
        /\ loc[p].stock.available_declared = itemC["ITEM-A"].stock_declared - 1

\* The term table: number of installments and days from the invoice date to
\* the due date of installment n.
TermCount(payment_terms) ==
    CASE payment_terms = "3 Installments" -> 3
      [] payment_terms = "6 Installments" -> 6
      [] OTHER -> 1

TermDays(payment_terms, n) ==
    CASE payment_terms = "Immediate" -> 0
      [] payment_terms = "Net 30" -> 30
      [] payment_terms = "Net 60" -> 60
      [] payment_terms = "Net 90" -> 90
      [] OTHER -> 30 * n

\* p has just run generate_payment_schedule on invoice v.
GenerateCalled(p, v) ==
    /\ opsStarted' # opsStarted
    /\ pc'[p] = "pay_open"
    /\ result'[p].op = "generate_payment_schedule"
    /\ result'[p].value.invoice = v
    /\ result'[p] # result[p] \/ payW'[p] # payW[p]

\* C32: on an invoice with payment terms and no schedule,
\* generate_payment_schedule creates installments 1..n, all Pending and unpaid:
\* one due on the invoice date for Immediate, one at +30, +60 or +90 days for
\* Net 30/60/90 carrying the full total_amount, three at +30, +60, +90 days
\* carrying a third each, six at +30..+180 days carrying a sixth each; with no
\* payment terms it changes nothing and does not save the invoice.
C32_ScheduleFollowsTermTable ==
    [][\A p \in Procs : \A v \in DOMAIN invC :
          (GenerateCalled(p, v) /\ PlanKeys(p, v) = {}) =>
              \A t \in {InvRow(p, v).payment_terms} : \A inv \in {InvRow(p, v)} :
                  /\ t = "" => payW'[p] = payW[p] /\ result'[p].status = "ok"
                  /\ t \in PaymentTerms \ {"Custom"} =>
                        /\ result'[p].status = "ok"
                        /\ PlanKeys(p, v)' = {<<v, n>> : n \in 1..TermCount(t)}
                        /\ \A n \in 1..TermCount(t) :
                              /\ PlanRow(p, <<v, n>>)'.installment_number = n
                              /\ PlanRow(p, <<v, n>>)'.status = "Pending"
                              /\ PlanRow(p, <<v, n>>)'.due_date
                                    = inv.invoice_date + TermDays(t, n)
                              /\ PlanRow(p, <<v, n>>)'.amount * TermCount(t)
                                    = inv.total_amount
                              /\ PlanRow(p, <<v, n>>)'.paid_amount = 0
                              /\ PlanRow(p, <<v, n>>)'.payment_reference = ""]_vars

\* A schedule was generated for an invoice of 6000 on 6 Installments terms
\* that had none: six Pending rows of 1000, the last due at +180 days.
C32_Witness ==
    \E p \in Procs :
        /\ pc[p] = "pay_open"
        /\ result[p].op = "generate_payment_schedule" /\ result[p].status = "ok"
        /\ planC = <<>>
        /\ invC["INV-1"].payment_terms = "6 Installments"
        /\ DOMAIN payW[p].plan = {<<"INV-1", n>> : n \in 1..6}
        /\ \A n \in 1..6 :
              /\ payW[p].plan[<<"INV-1", n>>].amount = 1000
              /\ payW[p].plan[<<"INV-1", n>>].status = "Pending"
        /\ payW[p].plan[<<"INV-1", 6>>].due_date = 180

\* The plan row k as p's transaction saw it when its running record_payment
\* set the Phase 1 savepoint.
RowAtPhase1(p, k) ==
    IF k \in DOMAIN savepoints[p]["payment_phase1"].plan
    THEN savepoints[p]["payment_phase1"].plan[k] ELSE planC[k]

\* C33: a successful record_payment for an installment of the invoice's
\* schedule creates exactly one Payment Execution and sets that installment to
\* Paid with paid_amount = amount_paid, paid_date = payment_date,
\* payment_reference = the new execution and exchange_rate_variance = its
\* fx_variance; no other installment of the invoice and no installment of
\* another invoice is changed.
C33_PaymentTouchesOneInstallment ==
    [][\A p \in Procs :
          (/\ RecordPaymentReturns(p)
           /\ <<op[p].invoice, op[p].installment_no>> \in PlanKeys(p, op[p].invoice)) =>
              \A k \in {<<op[p].invoice, op[p].installment_no>>} :
              \A n \in {result'[p].value.name} :
                  /\ TouchedSincePhase1(p, "exec") = {n}
                  /\ n \notin DOMAIN execC
                  /\ payW'[p].exec[n].invoice = op[p].invoice
                  /\ payW'[p].exec[n].installment = op[p].installment_no
                  /\ payW'[p].exec[n].amount_paid = op[p].amount_paid
                  /\ TouchedSincePhase1(p, "plan") = {k}
                  /\ payW'[p].plan[k]
                        = [RowAtPhase1(p, k) EXCEPT
                              !.status = "Paid",
                              !.paid_amount = op[p].amount_paid,
                              !.paid_date = op[p].payment_date,
                              !.payment_reference = n,
                              !.exchange_rate_variance = payW'[p].exec[n].fx_variance]
                  /\ planC' = planC /\ execC' = execC]_vars

\* Installment 2 of INV-1 was paid while INV-2 also has an open installment 2:
\* the request holds one new Payment Execution and one changed plan row.
C33_Witness ==
    \E p \in Procs :
        /\ pc[p] = "pay_open"
        /\ result[p].op = "record_payment" /\ result[p].status = "ok"
        /\ result[p].value.installment = 2
        /\ <<"INV-2", 2>> \in DOMAIN planC
        /\ planC[<<"INV-2", 2>>].status = "Pending"
        /\ DOMAIN payW[p].plan = {<<"INV-1", 2>>}
        /\ payW[p].plan[<<"INV-1", 2>>].status = "Paid"
        /\ payW[p].plan[<<"INV-1", 2>>].payment_reference = result[p].value.name
        /\ DOMAIN payW[p].exec = {result[p].value.name}

\* The daily job runs in this step: a call starts and no caller changes position.
MarkOverdueRuns == opsStarted' # opsStarted /\ pc' = pc

\* C34: mark_overdue_installments changes to Overdue exactly the installments
\* that are Pending with a due date before today and leaves every other
\* installment (Paid, Overdue, or Pending and due today or later) as it is; it
\* never raises: a store failure is logged, nothing is changed and the job
\* returns.
C34_OverdueExactlyPastDuePending ==
    [][MarkOverdueRuns =>
          /\ \E p \in Procs :
                /\ result'[p].op = "mark_overdue_installments"
                /\ result'[p].status = "ok" /\ result'[p].error = NoErr
                /\ result'[p].value.logged = (error_log' # error_log)
          /\ DOMAIN planC' = DOMAIN planC
          /\ invC' = invC /\ execC' = execC /\ payW' = payW
          /\ IF error_log' # error_log
             THEN /\ Len(error_log') = Len(error_log) + 1
                  /\ planC' = planC
             ELSE \A k \in DOMAIN planC :
                    planC'[k] =
                        IF planC[k].status = "Pending" /\ planC[k].due_date < 0
                        THEN [planC[k] EXCEPT !.status = "Overdue"]
                        ELSE planC[k]]_vars

\* The job has run over a Paid row, a Pending row a day past due, an Overdue
\* row and a Pending row due today: only the second one changed.
C34_Witness ==
    \E p \in Procs :
        /\ result[p].op = "mark_overdue_installments" /\ ~result[p].value.logged
        /\ \A q \in Procs : pc[q] = "idle"
        /\ opsStarted = 1
        /\ <<"INV-2", 2>> \in DOMAIN planC
        /\ planC[<<"INV-1", 1>>].status = "Paid"
        /\ planC[<<"INV-1", 2>>].status = "Overdue"
        /\ planC[<<"INV-1", 2>>].due_date = 0 - 1
        /\ planC[<<"INV-1", 3>>].status = "Overdue"
        /\ planC[<<"INV-2", 2>>].status = "Pending"
        /\ planC[<<"INV-2", 2>>].due_date = 0

\* The price-history entries a caller's transaction has appended to the item.
AppendedHistory(p, i) ==
    SubSeq(ItemRow(p, i).price_history, Len(itemC[i].price_history) + 1,
           Len(ItemRow(p, i).price_history))

\* C35: when update_cost_atomic has returned, each cost column of the item is
\* the stored one plus its delta and the stock columns are the stored ones; the
\* earlier price-history entries are all there, unchanged and in place; with
\* record_history one entry has been appended for each cost type whose delta is
\* non-zero and none for the other, each carrying the cost after the update,
\* the source, the exchange rate and the temporary-rate flag of the call;
\* without record_history nothing was appended; with both deltas zero the call
\* wrote nothing.
C35_CostDeltaAndHistory ==
    \A p \in Procs :
        (pc[p] = "req_commit" /\ op[p].name = "update_cost_atomic") =>
            \A i \in {op[p].item} :
                IF op[p].cost_landed_delta = 0 /\ op[p].cost_declared_delta = 0
                THEN itemW[p] = <<>>
                ELSE /\ DOMAIN itemW[p] = {i}
                     /\ itemW[p][i].cost_landed =
                            itemC[i].cost_landed + op[p].cost_landed_delta
                     /\ itemW[p][i].cost_declared =
                            itemC[i].cost_declared + op[p].cost_declared_delta
                     /\ itemW[p][i].stock_physical = itemC[i].stock_physical
                     /\ itemW[p][i].stock_declared = itemC[i].stock_declared
                     /\ Len(itemW[p][i].price_history) >= Len(itemC[i].price_history)
                     /\ SubSeq(itemW[p][i].price_history, 1,
                               Len(itemC[i].price_history)) = itemC[i].price_history
                     /\ Cardinality({k \in DOMAIN AppendedHistory(p, i) :
                            AppendedHistory(p, i)[k].cost_type = "PHYSICAL"}) =
                        (IF op[p].record_history /\ op[p].cost_landed_delta # 0
                         THEN 1 ELSE 0)
                     /\ Cardinality({k \in DOMAIN AppendedHistory(p, i) :
                            AppendedHistory(p, i)[k].cost_type = "DECLARED"}) =
                        (IF op[p].record_history /\ op[p].cost_declared_delta # 0
                         THEN 1 ELSE 0)
                     /\ \A k \in DOMAIN AppendedHistory(p, i) :
                          LET e == AppendedHistory(p, i)[k]
                          IN /\ e.cost_type \in {"PHYSICAL", "DECLARED"}
                             /\ e.thb_unit_price =
                                  (IF e.cost_type = "PHYSICAL"
                                   THEN itemW[p][i].cost_landed
                                   ELSE itemW[p][i].cost_declared)
                             /\ e.source = op[p].history.source
                             /\ e.exchange_rate =
                                  (IF op[p].history.exchange_rate = 0 THEN <<>>
                                   ELSE <<op[p].history.exchange_rate>>)
                             /\ e.is_temporary_rate =
                                  (IF op[p].history.is_temporary_rate THEN 1 ELSE 0)

\* A second call on an item that already has a history entry has returned: it
\* changed the landed cost only, at a temporary rate, and appended one entry.
C35_Witness ==
    \E p \in Procs :
        /\ pc[p] = "req_commit" /\ op[p].name = "update_cost_atomic"
        /\ op[p].record_history /\ op[p].history.is_temporary_rate
        /\ op[p].cost_landed_delta = 1 /\ op[p].cost_declared_delta = 0
        /\ Len(itemC[op[p].item].price_history) = 1
        /\ op[p].item \in DOMAIN itemW[p]
        /\ Len(itemW[p][op[p].item].price_history) = 2
        /\ itemW[p][op[p].item].price_history[2].cost_type = "PHYSICAL"
        /\ itemW[p][op[p].item].price_history[2].thb_unit_price = 2

\* Calls without record_history and calls with two zero deltas have returned.
C35_WitnessNoHistory ==
    \E p, q \in Procs :
        /\ p # q
        /\ pc[p] = "req_commit" /\ op[p].name = "update_cost_atomic"
        /\ ~op[p].record_history /\ op[p].cost_declared_delta = 1
        /\ op[p].item \in DOMAIN itemW[p]
        /\ pc[q] = "req_commit" /\ op[q].name = "update_cost_atomic"
        /\ op[q].cost_landed_delta = 0 /\ op[q].cost_declared_delta = 0

\* Stored physical stock less declared stock less the open quantity of the
\* item's gaps.
Imbalance(i) ==
    itemC[i].stock_physical - itemC[i].stock_declared - OpenQty(gapC, i, Len(gapC))

\* A delivery on loan is being committed in this step.
LendingCommitted ==
    \E p \in Procs :
        /\ pc[p] = "req_commit" /\ pc'[p] # "req_commit"
        /\ op[p].name = "deduct_stock" /\ op[p].delivery_note.is_lending

\* C36: in the store, physical stock less declared stock of every item equals
\* the sum of gap_qty - resolved_qty over the item's gaps: it is so from the
\* start, and every step other than the commit of a delivery on loan (formal
\* and informal receipts, gap resolutions, sales deliveries, and every failed
\* call) leaves the difference between the two sides as it was.
C36_StockDifferenceIsOpenGaps ==
    /\ \A i \in Items : Imbalance(i) = 0
    /\ [][LendingCommitted \/ \A i \in Items : Imbalance(i)' = Imbalance(i)]_vars

\* A gap created by an informal receipt of this run has been resolved in part or
\* in full by a declaration, and the item's physical stock exceeds its declared
\* stock by what is still open.
C36_Witness ==
    \E n \in DOMAIN gapC :
        /\ gapC[n].shipment # "SHP-0"
        /\ gapC[n].resolved_qty > 0
        /\ \A p \in Procs : pc[p] = "idle"
        /\ \A i \in Items : Imbalance(i) = 0

\* A sales delivery and a declaration have both been committed on an item that
\* still has an open gap.
C36_WitnessDelivery ==
    \E p, q \in Procs, i \in Items :
        /\ result[p].op = "deduct_stock" /\ result[p].status = "ok"
        /\ result[q].op = "resolve_gaps" /\ result[q].status = "ok"
        /\ itemC[i].stock_physical > itemC[i].stock_declared
        /\ itemC[i].stock_declared # InitStock
        /\ Imbalance(i) = 0

\* The status the quantities of a gap call for.
StatusOfQuantities(g) ==
    IF g.resolved_qty = 0 THEN "Pending"
    ELSE IF g.resolved_qty = g.gap_qty THEN "Resolved" ELSE "Partial"

StatusRank(status) ==
    CASE status = "Pending" -> 0 [] status = "Partial" -> 1 [] status = "Resolved" -> 2

\* C37: every Customs Gap, stored or as a caller's transaction sees it, has
\* 0 <= resolved_qty <= gap_qty, 0 < gap_qty, and the status its quantities call
\* for (Pending at 0, Resolved at gap_qty, Partial in between); a stored gap
\* that is Resolved is never locked or written by a later call and stays as it
\* is, and no gap's status moves backwards.
C37_GapStatusAgreesWithQuantities ==
    /\ [](\A p \in Procs : \A n \in DOMAIN gapC \cup DOMAIN gapW[p] :
            /\ 0 < GapRow(p, n).gap_qty
            /\ 0 <= GapRow(p, n).resolved_qty
            /\ GapRow(p, n).resolved_qty <= GapRow(p, n).gap_qty
            /\ GapRow(p, n).status = StatusOfQuantities(GapRow(p, n)))
    /\ [][\A n \in DOMAIN gapC :
            /\ n \in DOMAIN gapC'
            /\ StatusRank(gapC'[n].status) >= StatusRank(gapC[n].status)
            /\ gapC[n].status = "Resolved" =>
                  /\ gapC'[n] = gapC[n]
                  /\ \A p \in Procs : n \in DOMAIN gapW'[p] => n \in DOMAIN gapW[p]]_vars

\* A declaration has been committed that resolved one gap in full and left the
\* next one of its key Partial; a later declaration on the key has returned.
C37_Witness ==
    \E n, m \in DOMAIN gapC, p, q \in Procs :
        /\ p # q /\ n # m /\ gapC[n].general_name = gapC[m].general_name
        /\ gapC[n].status = "Resolved" /\ gapC[n].resolved_qty = gapC[n].gap_qty
        /\ gapC[n].resolution_ref # ""
        /\ gapC[m].status = "Partial"
        /\ result[p].op = "resolve_gaps" /\ result[p].status = "ok"
        /\ result[q].op = "resolve_gaps" /\ result[q].status = "ok"
        /\ pc[p] = "idle" /\ pc[q] = "idle"

\* C38 as stated: every Stock Reservation has
\* 0 <= reserved_declared <= reserved_physical.
C38_ReservedDeclaredWithinPhysical ==
    \A n \in DOMAIN resv :
        /\ 0 <= resv[n].reserved_declared
        /\ resv[n].reserved_declared <= resv[n].reserved_physical

\* At most one call is running.
OneAtATime == Cardinality({p \in Procs : pc[p] # "idle"}) <= 1

\* No item has more Active reserved_physical than stock_physical.
NoOverSelling == \A item \in Items : AvailablePhysical(item) >= 0

\* C39: with reserve_stock and release_reservation as the only calls (the stock
\* rows stay as they are), in every behaviour in which no two calls ever overlap
\* the Active reserved_physical of every item is at most its stock_physical in
\* every state.
C39_NoOverSellingWhenSequential ==
    ([]OneAtATime) => [](NoOverSelling /\ \A i \in Items :
                            itemC[i].stock_physical >= InitStock)

\* Two calls ran one after the other on one item: the first reserved what was
\* available, the second was refused, and the item is reserved in full.
C39_Witness ==
    \E p, q \in Procs, item \in Items :
        /\ p # q /\ pc[p] = "idle" /\ pc[q] = "idle"
        /\ result[p].op = "reserve_stock" /\ result[p].status = "ok"
        /\ result[p].value.available_physical = 0
        /\ resv[result[p].value.reservation].item = item
        /\ result[q].op = "reserve_stock" /\ result[q].status = "error"
        /\ result[q].error = ValidationError(MsgInsufficientStock)
        /\ AvailablePhysical(item) = 0
        /\ ActivePhysical(item, DOMAIN resv) > 0

\* C40 as stated: every stored Payment Execution refers to an installment that
\* is in the payment schedule of its invoice and is Paid (so a record_payment
\* call for an installment number that is not in the schedule has stored none).
C40_ExecutionRefersToPaidInstallment ==
    \A e \in DOMAIN execC :
        /\ <<execC[e].invoice, execC[e].installment>> \in DOMAIN planC
        /\ planC[<<execC[e].invoice, execC[e].installment>>].status = "Paid"
====
